---- MODULE Spec2Model ----
(***************************************************************************)
(* Recipe Buddy: query parser, match & rank engine, similarity engine and  *)
(* meal plan assistant, modelled from the Python sources.                  *)
(*                                                                         *)
(* Text is a sequence of one-character strings, so that Python's substring *)
(* test, str.lower, str.split and SQL LIKE '%x%' are computed, not assumed.*)
(* A missing value (Python None, or an empty string, which Python treats   *)
(* alike in `if x:`) is the empty sequence.                                *)
(***************************************************************************)
EXTENDS Integers, Sequences, FiniteSets, TLC

VARIABLES
    catalog,     \* the raw recipes of the JSON file the Recipe Source was loaded from
    use_database,\* RecipeMatcher.use_database: indexed (PostgreSQL) or scan (in-memory) mode
    request,     \* the arguments of the last RecipeMatcher.search call
    results,     \* what that call returned
    scored,      \* the rule score that call computed for each recipe of the catalog
    prev,        \* the request, results and rule scores of the call before
    threaded,    \* whether the server handles requests concurrently (Flask threaded mode)
    self_session,\* SimilarityEngine.session and MealPlanAssistant.session of the shared instances
    sessions,    \* every session get_session() has made: who acquired it, open or closed, closes
    reqs,        \* the requests: operation, position in its code, session acquired, outcome
    plan,        \* the call of generate_meal_plan: arguments, loop variables, the plan so far
    parsed,      \* what the last call of QueryParser.parse returned
    similar,     \* the call of SimilarityEngine.find_similar: arguments, candidates, scores, result
    report,      \* the payload of the walkthrough run_case.py: the enriched results
    call,        \* a call of one function on its own: its arguments and what it returned
    simple       \* GET /search/simple: the memory cache, the clock, the last request served

vars == <<catalog, use_database, request, results, scored, prev,
          threaded, self_session, sessions, reqs, plan, parsed, similar, report,
          call, simple>>
search_vars == <<catalog, use_database, request, results, scored, prev>>
session_vars == <<threaded, self_session, sessions, reqs>>

(***************************************************************************)
(* Bounds of the model.                                                    *)
(***************************************************************************)
MaxCatalog == 2
MaxResults == 2
MaxPage == 2
MaxRequests == 2
MaxDays == 2
MaxPhrases == 2
MaxSimilar == 2
\* rows of the large table of the candidate fetch
MaxTable == 13
\* how often the clock of the cached search route is moved on
MaxTicks == 3

(***************************************************************************)
(* Strings.                                                                *)
(***************************************************************************)
None == <<>>

UpperCase == <<"A","B","C","D","E","F","G","H","I","J","K","L","M",
               "N","O","P","Q","R","S","T","U","V","W","X","Y","Z">>
LowerCase == <<"a","b","c","d","e","f","g","h","i","j","k","l","m",
               "n","o","p","q","r","s","t","u","v","w","x","y","z">>

\* the lower-case letter of each upper-case letter
LowerMap == [c \in {UpperCase[i] : i \in 1..26} |->
                LowerCase[CHOOSE i \in 1..26 : UpperCase[i] = c]] @@ <<>>

LowerChar(c) == IF c \in DOMAIN LowerMap THEN LowerMap[c] ELSE c

\* str.lower()
Lower(s) == [i \in 1..Len(s) |-> LowerChar(s[i])] \o <<>>

\* Python `n in h` on strings; SQL `h LIKE '%n%'` for an n without wildcards
Contains(h, n) ==
    \E i \in 0..(Len(h) - Len(n)) : SubSeq(h, i + 1, i + Len(n)) = n

\* Python `x in list`
InList(x, l) == \E i \in 1..Len(l) : l[i] = x

\* list.index(x), 0-based, for an x that is in the list
IndexOf(l, x) == (CHOOSE i \in 1..Len(l) : l[i] = x /\ \A j \in 1..(i - 1) : l[j] # x) - 1

\* str.split(): the whitespace-separated words, each from a character that starts a
\* word to the last character before the next space
Split(s) ==
    LET starts == {i \in 1..Len(s) : s[i] # " " /\ (i = 1 \/ s[i - 1] = " ")}
        start(k) == CHOOSE i \in starts : Cardinality({j \in starts : j < i}) = k - 1
        end(i) == CHOOSE e \in i..Len(s) :
                      /\ \A j \in i..e : s[j] # " "
                      /\ e = Len(s) \/ s[e + 1] = " "
    IN  [k \in 1..Cardinality(starts) |-> SubSeq(s, start(k), end(start(k)))] \o <<>>

RECURSIVE Join(_)
\* ' '.join(parts)
Join(parts) ==
    IF parts = <<>> THEN <<>>
    ELSE IF Len(parts) = 1 THEN parts[1]
    ELSE parts[1] \o <<" ">> \o Join(Tail(parts))

\* s[:n]
Take(s, n) == SubSeq(s, 1, IF Len(s) < n THEN Len(s) ELSE n)

RECURSIVE Flatten(_)
\* the lists of a list, one after the other
Flatten(ss) == IF ss = <<>> THEN <<>> ELSE ss[1] \o Flatten(Tail(ss))

\* s[k:k+n] for k, n >= 0
Slice(s, k, n) == SubSeq(s, k + 1, IF Len(s) < k + n THEN Len(s) ELSE k + n)

Max2(a, b) == IF a >= b THEN a ELSE b
Min2(a, b) == IF a <= b THEN a ELSE b

(***************************************************************************)
(* Words of the catalog and of the queries.                                *)
(***************************************************************************)
t_pie == <<"p","i","e">>
t_egg == <<"e","g","g">>
t_beef == <<"b","e","e","f">>
t_baked == <<"b","a","k","e","d">>
t_lunch == <<"l","u","n","c","h">>
t_Pie == <<"P","i","e">>
t_Egg_Pie == <<"E","g","g"," ","P","i","e">>
t_Egg == <<"E","g","g">>
t_Beef == <<"B","e","e","f">>
t_Baked == <<"B","a","k","e","d">>
t_2_Eggs == <<"2"," ","E","g","g","s">>
t_Lunch == <<"L","u","n","c","h">>

(***************************************************************************)
(* The Recipe Source.  A raw recipe is an entry of the JSON file; the      *)
(* database rows and the in-memory recipes are both made from it.          *)
(***************************************************************************)
RawRecipe(title, ingredients, categories, protein) ==
    [title |-> title, ingredients |-> ingredients, directions |-> <<>>,
     categories |-> categories, protein |-> protein, calories |-> 100, saturates |-> 0]

RecipePool ==
    { RawRecipe(t_Pie, <<t_2_Eggs>>, <<>>, 20),
      RawRecipe(t_Egg_Pie, <<>>, <<t_Baked>>, 5),
      RawRecipe(t_Egg, <<t_Beef>>, <<t_Lunch>>, 20) }

\* the catalogs: up to MaxCatalog different recipes, in any order
Catalogs ==
    { c \in UNION { [1..n -> RecipePool] : n \in 1..MaxCatalog } :
        \A i, j \in 1..Len(c) : i # j => c[i] # c[j] }

\* scripts/migrate_to_postgres.py preprocess_recipe: the row of recipe number idx (0-based)
preprocess_recipe(recipe, idx) ==
    [id |-> idx + 1,
     title |-> recipe.title,
     ingredients |-> recipe.ingredients,
     directions |-> recipe.directions,
     categories |-> recipe.categories,
     protein |-> recipe.protein,
     calories |-> recipe.calories,
     saturates |-> recipe.saturates,
     search_text |->
        Join(<<Lower(recipe.title), Lower(recipe.title)>>
             \o [i \in 1..Len(recipe.ingredients) |-> Lower(recipe.ingredients[i])]
             \o [i \in 1..Len(recipe.categories) |-> Lower(recipe.categories[i])])]

\* the recipes table after migrate(): rows in insertion order
db_rows(cat) == [i \in 1..Len(cat) |-> preprocess_recipe(cat[i], i - 1)]

\* core/data_loader.py _slim_recipe(_preprocess_recipe(recipe))
slim_recipe(recipe) ==
    [id |-> 0,
     title |-> Take(recipe.title, 100),
     ingredients |-> Take(recipe.ingredients, 15),
     directions |-> Take(recipe.directions, 5),
     categories |-> Take(recipe.categories, 5),
     protein |-> recipe.protein,
     calories |-> recipe.calories,
     saturates |-> recipe.saturates]

\* load_recipes_from_json: RecipeMatcher.recipes in scan mode
memory_recipes(cat) == [i \in 1..Len(cat) |-> slim_recipe(cat[i])]

\* RecipeMatcher._recipe_to_text
recipe_to_text(recipe) ==
    Lower(Join(<<recipe.title>>
               \o (IF recipe.ingredients # <<>> THEN <<Join(recipe.ingredients)>> ELSE <<>>)
               \o (IF recipe.directions # <<>> THEN <<Join(recipe.directions)>> ELSE <<>>)
               \o (IF recipe.categories # <<>> THEN <<Join(recipe.categories)>> ELSE <<>>)))

\* no value: NULL in a column of the table, None or no key in a recipe of the list (the
\* values themselves are never negative)
NoValue == -1

\* the columns of the nutrients (getattr(Recipe, nutrient, None) is a column for these)
RecipeColumns == {"calories", "protein", "fat", "sodium", "sugar", "saturates"}

\* the value of a nutrient in a row or a recipe (recipe.get(nutrient)); the recipes of
\* the model carry calories, protein and saturates
Column(row, nutrient) ==
    IF nutrient = "protein" THEN row.protein
    ELSE IF nutrient = "calories" THEN row.calories
    ELSE IF nutrient = "saturates" THEN row.saturates
    ELSE NoValue

(***************************************************************************)
(* ParsedQuery: dish_name (None or text), ingredients, excluded_ingredients*)
(* and categories (lists of text), meal_type (None or text), nutrition (a  *)
(* function from nutrient names to functions from "min"/"max" to values).  *)
(***************************************************************************)
NoNutrition == [n \in {} |-> 0]
HighProtein == [n \in {"protein"} |-> [b \in {"min"} |-> 15]]

ParsedQuery(dish, ings, excl, cats, meal, nutr) ==
    [dish_name |-> dish, ingredients |-> ings, excluded_ingredients |-> excl,
     categories |-> cats, meal_type |-> meal, nutrition |-> nutr]

\* func.lower(column).like('%' + x.lower() + '%')
Like(column, x) == Contains(Lower(column), Lower(x))

\* the exclusion filter looking at the title only
NotExcluded_title_only(row, exc) == ~Like(row.title, exc)

\* _search_database STEP 1: the filter added for one excluded ingredient
NotExcluded(row, exc) ==
    ~(Like(row.search_text, exc) /\ (Like(row.title, exc) \/ Like(row.search_text, exc)))

\* _search_database STEP 2: the filters added for one nutrient of the query
NutritionFilter(row, nutrient, constraints) ==
    nutrient \in RecipeColumns =>
        /\ Column(row, nutrient) # NoValue
        /\ ("min" \in DOMAIN constraints => Column(row, nutrient) >= constraints["min"])
        /\ ("max" \in DOMAIN constraints => Column(row, nutrient) <= constraints["max"])

\* _search_database STEP 3 and STEP 4: the filter added for one required ingredient,
\* and for the dish name
HasTerm(row, term) == Like(row.title, term) \/ Like(row.search_text, term)

\* the WHERE clause _search_database builds
db_filter(row, pq) ==
    /\ \A i \in 1..Len(pq.excluded_ingredients) : NotExcluded(row, pq.excluded_ingredients[i])
    /\ \A n \in DOMAIN pq.nutrition : NutritionFilter(row, n, pq.nutrition[n])
    /\ \A i \in 1..Len(pq.ingredients) : HasTerm(row, pq.ingredients[i])
    /\ (pq.dish_name # None => HasTerm(row, pq.dish_name))

\* the DISH NAME statements with the partial match asked before the whole word
dish_score_partial_first(title_lower, search_text_lower, dish_name) ==
    IF dish_name = None THEN 0
    ELSE LET dish_lower == Lower(dish_name)
         IN  IF title_lower = dish_lower THEN 100
             ELSE IF Contains(title_lower, dish_lower) THEN 35
             ELSE IF Contains(search_text_lower, dish_lower) THEN 20
             ELSE 0

\* points of the dish name (DISH NAME SCORING)
dish_score(title_lower, search_text_lower, dish_name) ==
    IF dish_name = None THEN 0
    ELSE LET dish_lower == Lower(dish_name)
             title_words == Split(title_lower)
         IN  IF title_lower = dish_lower THEN 100
             ELSE IF Contains(<<" ">> \o title_lower \o <<" ">>, <<" ">> \o dish_lower \o <<" ">>)
                  THEN IF InList(dish_lower, title_words)
                       THEN LET position == IndexOf(title_words, dish_lower)
                            IN  IF position = 0 THEN 60
                                ELSE IF position = Len(title_words) - 1 THEN 65
                                ELSE 55
                       ELSE 50
             ELSE IF Contains(title_lower, dish_lower) THEN 35
             ELSE IF Contains(search_text_lower, dish_lower) THEN 20
             ELSE 0

\* points of one required ingredient (REQUIRED INGREDIENTS SCORING)
ingredient_score(title_lower, search_text_lower, ingredient) ==
    LET ing_lower == Lower(ingredient)
        title_words == Split(title_lower)
        in_title ==
            IF Contains(title_lower, ing_lower)
            THEN 15 + (IF InList(ing_lower, title_words)
                       THEN LET position == IndexOf(title_words, ing_lower)
                            IN  IF position = 0 THEN 10
                                ELSE IF position = 1 THEN 8
                                ELSE IF position = 2 THEN 5
                                ELSE 2
                       ELSE 5)
            ELSE 0
        in_text == IF Contains(search_text_lower, ing_lower) THEN 10 ELSE 0
    IN  in_title + in_text

RECURSIVE SumSeq(_)
SumSeq(s) == IF s = <<>> THEN 0 ELSE s[1] + SumSeq(Tail(s))

Abs(x) == IF x < 0 THEN -x ELSE x

\* COMBO BONUS
combo_bonus(title_lower, dish_name, required_ingredients) ==
    IF dish_name # None /\ required_ingredients # <<>>
    THEN LET dish_lower == Lower(dish_name)
             title_words == Split(title_lower)
             ingredients_in_title ==
                 Cardinality({i \in 1..Len(required_ingredients) :
                                 Contains(title_lower, Lower(required_ingredients[i]))})
         IN  IF Contains(title_lower, dish_lower) /\ ingredients_in_title > 0
             THEN 20 + (IF InList(dish_lower, title_words)
                        THEN SumSeq([i \in 1..Len(required_ingredients) |->
                                IF /\ InList(Lower(required_ingredients[i]), title_words)
                                   /\ Abs(IndexOf(title_words, dish_lower)
                                          - IndexOf(title_words, Lower(required_ingredients[i]))) <= 2
                                THEN 10 ELSE 0])
                        ELSE 0)
             ELSE 0
    ELSE 0

\* RecipeMatcher._calculate_recipe_score, in points
calculate_recipe_score(recipe, pq) ==
    LET title_lower == Lower(recipe.title)
        search_text_lower == Lower(recipe.search_text)
    IN  dish_score(title_lower, search_text_lower, pq.dish_name)
        + SumSeq([i \in 1..Len(pq.ingredients) |->
                    ingredient_score(title_lower, search_text_lower, pq.ingredients[i])])
        + combo_bonus(title_lower, pq.dish_name, pq.ingredients)
        + SumSeq([i \in 1..Len(pq.categories) |->
                    IF Contains(search_text_lower, Lower(pq.categories[i])) THEN 12 ELSE 0])
        + (IF pq.meal_type # None /\ Contains(search_text_lower, Lower(pq.meal_type))
           THEN 15 ELSE 0)
        + 20 * Cardinality(DOMAIN pq.nutrition)

RECURSIVE InsertDesc(_, _)
\* x put behind every entry whose score is not smaller
InsertDesc(sorted, x) ==
    IF sorted = <<>> THEN <<x>>
    ELSE IF sorted[1].score >= x.score THEN <<sorted[1]>> \o InsertDesc(Tail(sorted), x)
    ELSE <<x>> \o sorted

RECURSIVE SortDesc(_)
\* list.sort(key=score, reverse=True): stable, equal scores keep their order
SortDesc(s) ==
    IF s = <<>> THEN <<>>
    ELSE InsertDesc(SortDesc(SubSeq(s, 1, Len(s) - 1)), s[Len(s)])

\* _search_database STEP 5: the scored candidates with a positive score; the published
\* score is score / den
db_scored(rows, pq, max_results) ==
    LET Passes(row) == db_filter(row, pq)
        candidates == Take(SelectSeq(rows, Passes), max_results * 10)
        with_score == [i \in 1..Len(candidates) |->
                     [id |-> candidates[i].id, title |-> candidates[i].title,
                      score |-> calculate_recipe_score(candidates[i], pq), den |-> 100]]
        Positive(r) == r.score > 0
    IN  SelectSeq(with_score, Positive)

\* RecipeMatcher._search_database
search_database(rows, pq, max_results, offset) ==
    Slice(SortDesc(db_scored(rows, pq, max_results)), offset, max_results)

(***************************************************************************)
(* Scan mode.  Scores are fractions: a list of numerators over one         *)
(* denominator.                                                            *)
(***************************************************************************)
\* str(list).lower() of a list of strings
ReprList(l) ==
    LET RECURSIVE Items(_)
        Items(k) ==
            IF k > Len(l) THEN <<>>
            ELSE (IF k > 1 THEN <<",", " ">> ELSE <<>>) \o <<"'">> \o l[k] \o <<"'">> \o Items(k + 1)
    IN  Lower(<<"[">> \o Items(1) \o <<"]">>)

\* the denominator of the scores _calculate_rule_scores adds up: tenths, shared out over
\* the query's ingredients and categories
rule_den(pq) == 10 * Max2(1, Len(pq.ingredients)) * Max2(1, Len(pq.categories))

\* the score of one recipe in the loop of _calculate_rule_scores, as a numerator over rule_den
rule_points(recipe, pq) ==
    LET recipe_text == Lower(recipe_to_text(recipe))
        recipe_title == Lower(recipe.title)
        li == Max2(1, Len(pq.ingredients))
        lc == Max2(1, Len(pq.categories))
        recipe_cats == ReprList(recipe.categories)
        matched_ings == Cardinality({i \in 1..Len(pq.ingredients) :
                                        Contains(recipe_text, Lower(pq.ingredients[i]))})
        matched_cats == Cardinality({i \in 1..Len(pq.categories) :
                                        \/ Contains(recipe_cats, pq.categories[i])
                                        \/ Contains(recipe_text, pq.categories[i])})
    IN  (IF pq.dish_name = None THEN 0
         ELSE IF Contains(recipe_title, Lower(pq.dish_name)) THEN 4 * li * lc
         ELSE IF Contains(recipe_text, Lower(pq.dish_name)) THEN 2 * li * lc
         ELSE 0)
        + 3 * matched_ings * lc
        + 2 * matched_cats * li
        + (IF pq.meal_type # None /\ Contains(recipe_text, Lower(pq.meal_type))
           THEN li * lc ELSE 0)

RECURSIVE MaxSeq(_)
MaxSeq(s) == IF s = <<>> THEN 0 ELSE Max2(s[1], MaxSeq(Tail(s)))

\* RecipeMatcher._calculate_rule_scores: the scores divided by their maximum when it is positive
calculate_rule_scores(recipes, pq) ==
    LET num == [i \in 1..Len(recipes) |-> rule_points(recipes[i], pq)]
    IN  [num |-> num, den |-> IF MaxSeq(num) > 0 THEN MaxSeq(num) ELSE rule_den(pq)]

\* RecipeMatcher._nutrition_matches
nutrition_matches_strict(recipe, nutrition_req) ==
    \A n \in DOMAIN nutrition_req :
        /\ Column(recipe, n) # NoValue
        /\ ("min" \in DOMAIN nutrition_req[n] => ~(Column(recipe, n) < nutrition_req[n]["min"]))
        /\ ("max" \in DOMAIN nutrition_req[n] => ~(Column(recipe, n) > nutrition_req[n]["max"]))

nutrition_matches(recipe, nutrition_req) ==
    \A n \in DOMAIN nutrition_req :
        Column(recipe, n) # NoValue =>
            /\ ("min" \in DOMAIN nutrition_req[n] => ~(Column(recipe, n) < nutrition_req[n]["min"]))
            /\ ("max" \in DOMAIN nutrition_req[n] => ~(Column(recipe, n) > nutrition_req[n]["max"]))

\* RecipeMatcher._apply_constraints: the 0/1 mask
apply_constraints(recipes, pq) ==
    [i \in 1..Len(recipes) |->
        IF \E k \in 1..Len(pq.excluded_ingredients) :
              Contains(Lower(recipe_to_text(recipes[i])), Lower(pq.excluded_ingredients[k]))
        THEN 0
        ELSE IF pq.nutrition # NoNutrition /\ ~nutrition_matches(recipes[i], pq.nutrition)
        THEN 0
        ELSE 1]

\* the hybrid scores of _search_memory after the mask: 0.7 * rule + 0.3 * semantic with
\* the TF-IDF index, the rule scores without; semantic[i] is the cosine similarity (0 or 1)
hybrid_scores(recipes, pq, use_tfidf, semantic) ==
    LET rule == calculate_rule_scores(recipes, pq)
        mask == apply_constraints(recipes, pq)
    IN  IF use_tfidf
        THEN [num |-> [i \in 1..Len(recipes) |->
                          (7 * rule.num[i] + 3 * semantic[i] * rule.den) * mask[i]],
              den |-> 10 * rule.den]
        ELSE [num |-> [i \in 1..Len(recipes) |-> rule.num[i] * mask[i]], den |-> rule.den]

\* np.argsort(hybrid_scores)[::-1]: the entries by ascending score, equal scores by
\* ascending index, then reversed
argsort_reversed(entries) ==
    SortDesc([i \in 1..Len(entries) |-> entries[Len(entries) + 1 - i]])

\* RecipeMatcher._search_memory
search_memory(recipes, pq, max_results, use_tfidf, semantic) ==
    LET hybrid == hybrid_scores(recipes, pq, use_tfidf, semantic)
        entries == [i \in 1..Len(recipes) |->
                      [id |-> i - 1, title |-> recipes[i].title,
                       score |-> hybrid.num[i], den |-> hybrid.den]]
        top == Take(argsort_reversed(entries), max_results * 3)
        Positive(r) == r.score > 0
    IN  Take(SelectSeq(top, Positive), max_results)

\* RecipeMatcher.search
search(cat, db, req) ==
    IF db
    THEN search_database(db_rows(cat), req.parsed_query, req.max_results, req.offset)
    ELSE search_memory(memory_recipes(cat), req.parsed_query, req.max_results,
                       req.use_tfidf, req.semantic)

(***************************************************************************)
(* The rule score each call computes per recipe (0 over 1 for a recipe the *)
(* indexed mode filtered out before scoring).                              *)
(***************************************************************************)
rule_scores(cat, db, req) ==
    IF db
    THEN [i \in 1..Len(cat) |->
            IF db_filter(db_rows(cat)[i], req.parsed_query)
            THEN [candidate |-> TRUE,
                  num |-> calculate_recipe_score(db_rows(cat)[i], req.parsed_query), den |-> 100]
            ELSE [candidate |-> FALSE, num |-> 0, den |-> 1]]
    ELSE LET rule == calculate_rule_scores(memory_recipes(cat), req.parsed_query)
         IN  [i \in 1..Len(cat) |-> [candidate |-> TRUE, num |-> rule.num[i], den |-> rule.den]]

(***************************************************************************)
(* The walkthrough walkthroughs/search_case_01/run_case.py: a search in     *)
(* indexed mode, then the hard filters and the score evaluated again on the *)
(* row of every result.                                                    *)
(***************************************************************************)
\* evaluate_hard_filters(recipe, parsed).passed
evaluate_hard_filters(recipe, parsed_query) ==
    LET title_lower == Lower(recipe.title)
        search_text_lower == Lower(recipe.search_text)
        In(term) == Contains(title_lower, Lower(term)) \/ Contains(search_text_lower, Lower(term))
    IN  /\ \A k \in 1..Len(parsed_query.excluded_ingredients) :
             ~(parsed_query.excluded_ingredients[k] # <<>> /\ In(parsed_query.excluded_ingredients[k]))
        /\ \A n \in DOMAIN parsed_query.nutrition :
             /\ Column(recipe, n) # NoValue
             /\ ~("min" \in DOMAIN parsed_query.nutrition[n]
                   /\ Column(recipe, n) < parsed_query.nutrition[n]["min"])
             /\ ~("max" \in DOMAIN parsed_query.nutrition[n]
                   /\ Column(recipe, n) > parsed_query.nutrition[n]["max"])
        /\ \A k \in 1..Len(parsed_query.ingredients) :
             ~(parsed_query.ingredients[k] # <<>> /\ ~In(parsed_query.ingredients[k]))
        /\ (parsed_query.dish_name # None => In(parsed_query.dish_name))

\* score_breakdown(recipe, parsed)[0]: the total.  Its statements for the dish name, the
\* required ingredients, the categories, the meal type and the nutrition bonus are those
\* of _calculate_recipe_score; its COMBO BONUS loop ends at the first ingredient that
\* gets the proximity points (break)
score_breakdown(recipe, parsed_query) ==
    LET title_lower == Lower(recipe.title)
        search_text_lower == Lower(recipe.search_text)
        required_ingredients == parsed_query.ingredients
        dish_lower == Lower(parsed_query.dish_name)
        title_words == Split(title_lower)
        ingredients_in_title ==
            Cardinality({i \in 1..Len(required_ingredients) :
                            Contains(title_lower, Lower(required_ingredients[i]))})
        Close(ing) ==
            /\ InList(Lower(ing), title_words)
            /\ Abs(IndexOf(title_words, dish_lower) - IndexOf(title_words, Lower(ing))) <= 2
        combo ==
            IF parsed_query.dish_name # None /\ required_ingredients # <<>>
               /\ Contains(title_lower, dish_lower) /\ ingredients_in_title > 0
            THEN 20 + (IF /\ InList(dish_lower, title_words)
                          /\ \E i \in 1..Len(required_ingredients) : Close(required_ingredients[i])
                       THEN 10 ELSE 0)
            ELSE 0
    IN  dish_score(title_lower, search_text_lower, parsed_query.dish_name)
        + SumSeq([i \in 1..Len(required_ingredients) |->
                    ingredient_score(title_lower, search_text_lower, required_ingredients[i])])
        + combo
        + 12 * Cardinality({i \in 1..Len(parsed_query.categories) :
                              Contains(search_text_lower, Lower(parsed_query.categories[i]))})
        + (IF parsed_query.meal_type # None /\ Contains(search_text_lower, Lower(parsed_query.meal_type))
           THEN 15 ELSE 0)
        + 20 * Cardinality(DOMAIN parsed_query.nutrition)

\* main: the enriched results of the search results, in rank order
enriched(rows, results_of_search, parsed_query) ==
    [rank \in 1..Len(results_of_search) |->
        LET full == rows[results_of_search[rank].id]
        IN  [rank |-> rank, id |-> full.id,
             hard_filters |-> evaluate_hard_filters(full, parsed_query),
             rule_score_0_100 |-> score_breakdown(full, parsed_query)]]

(***************************************************************************)
(* Sessions.  _search_database keeps its session in a local variable;      *)
(* find_similar and generate_meal_plan keep theirs in self.session of the  *)
(* instance the routes share (features.py makes one of each).              *)
(***************************************************************************)
Requests == 1..MaxRequests

Operations == {"search", "similar", "plan"}

\* the shared instance whose attribute the operation uses ("local": a local variable)
holder(op) ==
    IF op = "similar" THEN "similarity_engine"
    ELSE IF op = "plan" THEN "meal_planner"
    ELSE "local"

IdleRequest ==
    [op |-> "none", pc |-> "idle", acquired |-> 0, outcome |-> "none",
     used_foreign |-> FALSE, used_closed |-> FALSE]

NoSessions == [similarity_engine |-> 0, meal_planner |-> 0]

in_flight(r) == reqs[r].pc \notin {"idle", "done"}

\* the session a statement of request r reaches: the local variable, or self.session
current_session(r) ==
    IF holder(reqs[r].op) = "local" THEN reqs[r].acquired
    ELSE self_session[holder(reqs[r].op)]

\* session.query(...): runs on the session reached; a closed session begins anew
issue_query(r, next_pc, outcome) ==
    LET s == current_session(r)
    IN  /\ reqs' = [reqs EXCEPT ![r].pc = next_pc,
                                ![r].outcome = outcome,
                                ![r].used_foreign = @ \/ (s # reqs[r].acquired),
                                ![r].used_closed = @ \/ ~sessions[s].open]
        /\ sessions' = [sessions EXCEPT ![s].open = TRUE]
        /\ UNCHANGED <<threaded, self_session>>
        /\ UNCHANGED <<search_vars, plan, parsed, similar, report, call, simple>>

\* a request arrives and its operation runs up to try: session = get_session()
Acquire(r) ==
    /\ reqs[r].pc = "idle"
    /\ \A q \in Requests : q < r => reqs[q].pc # "idle"
    /\ threaded \/ \A q \in Requests : ~in_flight(q)
    /\ \E op \in Operations :
         LET s == Len(sessions) + 1
         IN  /\ sessions' = Append(sessions, [owner |-> r, open |-> TRUE, closes |-> 0,
                                               closed_by_owner |-> FALSE])
             /\ self_session' = IF holder(op) = "local" THEN self_session
                                ELSE [self_session EXCEPT ![holder(op)] = s]
             /\ reqs' = [reqs EXCEPT ![r] = [IdleRequest EXCEPT !.op = op, !.pc = "query",
                                                               !.acquired = s]]
    /\ UNCHANGED threaded
    /\ UNCHANGED <<search_vars, plan, parsed, similar, report, call, simple>>

\* the first query: the candidates of _search_database, the target of find_similar,
\* a candidate lookup of _generate_plan (which makes one or two per meal, for every meal)
Query(r) ==
    /\ reqs[r].pc = "query"
    /\ \/ reqs[r].op # "similar" /\ issue_query(r, "score", "none")
       \/ reqs[r].op = "similar" /\ issue_query(r, "finally", "early return")
       \/ reqs[r].op = "similar" /\ issue_query(r, "candidates", "none")
       \/ reqs[r].op = "plan" /\ issue_query(r, "query", "none")
       \/ issue_query(r, "finally", "exception")

\* find_similar: _get_candidate_recipes, for a target that was found
Candidates(r) ==
    /\ reqs[r].pc = "candidates"
    /\ \/ issue_query(r, "score", "none")
       \/ issue_query(r, "finally", "early return")
       \/ issue_query(r, "finally", "exception")

\* scoring and formatting the results: no query, returns or raises
Score(r) ==
    /\ reqs[r].pc = "score"
    /\ \E outcome \in {"return", "exception"} :
         reqs' = [reqs EXCEPT ![r].pc = "finally", ![r].outcome = outcome]
    /\ UNCHANGED <<threaded, self_session, sessions>>
    /\ UNCHANGED <<search_vars, plan, parsed, similar, report, call, simple>>

\* the finally block closing the local session only on a normal return
Finally_unless_raised(r) ==
    /\ reqs[r].pc = "finally"
    /\ LET s == current_session(r)
       IN  sessions' = IF s # 0 /\ reqs[r].outcome # "exception"
                       THEN [sessions EXCEPT ![s].open = FALSE, ![s].closes = @ + 1,
                                             ![s].closed_by_owner = @ \/ (sessions[s].owner = r)]
                       ELSE sessions
    /\ reqs' = [reqs EXCEPT ![r].pc = "done"]
    /\ UNCHANGED <<threaded, self_session>>
    /\ UNCHANGED <<search_vars, plan, parsed, similar, report, call, simple>>

\* finally: session.close()  /  if self.session: self.session.close()
Finally(r) ==
    /\ reqs[r].pc = "finally"
    /\ LET s == current_session(r)
       IN  sessions' = IF s # 0
                       THEN [sessions EXCEPT ![s].open = FALSE, ![s].closes = @ + 1,
                                             ![s].closed_by_owner = @ \/ (sessions[s].owner = r)]
                       ELSE sessions
    /\ reqs' = [reqs EXCEPT ![r].pc = "done"]
    /\ UNCHANGED <<threaded, self_session>>
    /\ UNCHANGED <<search_vars, plan, parsed, similar, report, call, simple>>

SessionsIdle ==
    /\ self_session = NoSessions
    /\ sessions = <<>>
    /\ reqs = [r \in Requests |-> IdleRequest]

(***************************************************************************)
(* Regular expressions, as re.finditer matches them: a pattern is a tree   *)
(* of nodes, a match attempt at a position gives the ways to match in the  *)
(* order the backtracking matcher tries them, and the first one counts.    *)
(* A way is [e |-> end position, g |-> the spans of groups 1 and 2].       *)
(***************************************************************************)
Lit(text) == [k |-> "lit", s |-> text]                \* the characters themselves
Cat(nodes) == [k |-> "seq", rs |-> nodes]             \* one after the other
Alt(nodes) == [k |-> "alt", rs |-> nodes]             \* a|b|c
Opt(node) == [k |-> "opt", rs |-> <<node>>]           \* (?:r)?
Cap(n, node) == [k |-> "cap", n |-> n, rs |-> <<node>>]   \* group n
Spaces1 == [k |-> "run", class |-> "space", min |-> 1]   \* \s+
Spaces0 == [k |-> "run", class |-> "space", min |-> 0]   \* \s*
Word1 == [k |-> "run", class |-> "word", min |-> 1]      \* \w+
Digits1 == [k |-> "run", class |-> "digit", min |-> 1]   \* \d+
SpaceOrHyphen == [k |-> "one", class |-> "space-"]       \* [\s-]
WordBoundary == [k |-> "wb"]                             \* \b

DigitChars == <<"0","1","2","3","4","5","6","7","8","9">>

IsDigit(c) == \E i \in 1..10 : DigitChars[i] = c
IsWordChar(c) == c \in DOMAIN LowerMap \/ (\E i \in 1..26 : LowerCase[i] = c) \/ IsDigit(c) \/ c = "_"
IsSpace(c) == c = " "

InClass(c, class) ==
    IF class = "space" THEN IsSpace(c)
    ELSE IF class = "word" THEN IsWordChar(c)
    ELSE IF class = "digit" THEN IsDigit(c)
    ELSE IsSpace(c) \/ c = "-"

RECURSIVE RunLength(_, _, _)
\* how many characters of the class follow position i
RunLength(s, i, class) ==
    IF i < Len(s) /\ InClass(s[i + 1], class) THEN 1 + RunLength(s, i + 1, class) ELSE 0

NoGroups == <<<<>>, <<>>>>

\* the groups of two consecutive parts of a match
MergeGroups(g, h) == [n \in 1..2 |-> IF h[n] # <<>> THEN h[n] ELSE g[n]]

RECURSIVE MatchAt(_, _, _)
RECURSIVE MatchSeq(_, _, _, _)
RECURSIVE MatchAlt(_, _, _)
\* the ways node matches s from position i (0-based), in the matcher's order
MatchAt(node, s, i) ==
    CASE node.k = "lit" ->
            IF i + Len(node.s) <= Len(s) /\ SubSeq(s, i + 1, i + Len(node.s)) = node.s
            THEN <<[e |-> i + Len(node.s), g |-> NoGroups]>>
            ELSE <<>>
      [] node.k = "run" ->
            LET m == RunLength(s, i, node.class)
            IN  IF m < node.min THEN <<>>
                ELSE [j \in 1..(m - node.min + 1) |-> [e |-> i + m + 1 - j, g |-> NoGroups]]
      [] node.k = "one" ->
            IF i < Len(s) /\ InClass(s[i + 1], node.class)
            THEN <<[e |-> i + 1, g |-> NoGroups]>>
            ELSE <<>>
      [] node.k = "wb" ->
            LET before == i >= 1 /\ IsWordChar(s[i])
                after == i < Len(s) /\ IsWordChar(s[i + 1])
            IN  IF before # after THEN <<[e |-> i, g |-> NoGroups]>> ELSE <<>>
      [] node.k = "seq" -> MatchSeq(node.rs, s, i, NoGroups)
      [] node.k = "alt" -> MatchAlt(node.rs, s, i)
      [] node.k = "opt" -> MatchAt(node.rs[1], s, i) \o <<[e |-> i, g |-> NoGroups]>>
      [] node.k = "cap" ->
            LET ways == MatchAt(node.rs[1], s, i)
            IN  [j \in 1..Len(ways) |->
                    [e |-> ways[j].e,
                     g |-> MergeGroups(ways[j].g,
                              [n \in 1..2 |-> IF n = node.n THEN <<i, ways[j].e>> ELSE <<>>])]]

MatchAlt(nodes, s, i) ==
    IF nodes = <<>> THEN <<>>
    ELSE MatchAt(nodes[1], s, i) \o MatchAlt(Tail(nodes), s, i)

\* the ways the nodes match one after the other; g: the groups matched before them
MatchSeq(nodes, s, i, g) ==
    IF nodes = <<>> THEN <<[e |-> i, g |-> g]>>
    ELSE LET first == MatchAt(nodes[1], s, i)
             RECURSIVE Rest(_)
             Rest(j) ==
                 IF j > Len(first) THEN <<>>
                 ELSE MatchSeq(Tail(nodes), s, first[j].e, MergeGroups(g, first[j].g))
                      \o Rest(j + 1)
         IN  Rest(1)

RECURSIVE FindIterFrom(_, _, _)
\* re.finditer(pattern, s): the matches from left to right, as [start, e, g]; the
\* search goes on from the first position at or after i where the pattern matches
FindIterFrom(pattern, s, i) ==
    LET starts == {j \in i..Len(s) : MatchAt(pattern, s, j) # <<>>}
    IN  IF starts = {} THEN <<>>
        ELSE LET start == CHOOSE j \in starts : \A k \in starts : j <= k
                 ways == MatchAt(pattern, s, start)
             IN  <<[start |-> start, e |-> ways[1].e, g |-> ways[1].g]>>
                 \o FindIterFrom(pattern, s, IF ways[1].e > start THEN ways[1].e ELSE start + 1)

FindIter(pattern, s) == FindIterFrom(pattern, s, 0)

\* match.group(n)
Group(s, match, n) == SubSeq(s, match.g[n][1] + 1, match.g[n][2])

(***************************************************************************)
(* Query parser.  The vocabulary lists hold the entries of                 *)
(* config/vocabulary.py that occur in, or contain a phrase of, the texts   *)
(* of the model, in the order of the source; the other entries match none  *)
(* of these texts.                                                         *)
(***************************************************************************)
NEGATION_WORDS ==
    {<<"a","n","d"," ","n","o">>, <<"a","v","o","i","d">>, <<"b","u","t"," ","n","o">>,
     <<"d","o"," ","n","o","t">>, <<"d","o","e","s"," ","n","o","t">>,
     <<"d","o","e","s","n","'","t">>, <<"d","o","e","s","n","t">>, <<"d","o","n","'","t">>,
     <<"d","o","n","t">>, <<"e","x","c","e","p","t">>, <<"e","x","c","l","u","d","e">>,
     <<"f","r","e","e">>, <<"h","o","l","d">>, <<"l","e","a","v","e"," ","o","u","t">>,
     <<"m","i","n","u","s">>, <<"n","e","v","e","r">>, <<"n","o">>, <<"n","o","n","e">>,
     <<"n","o","t">>, <<"s","k","i","p">>, <<"w","i","t","h","o","u","t">>}

MEAL_TYPES ==
    <<[meal_type |-> <<"b","r","e","a","k","f","a","s","t">>, keywords |-> <<<<"b","r","e","a","k","f","a","s","t">>, <<"b","r","u","n","c","h">>, <<"m","o","r","n","i","n","g">>>>],
      [meal_type |-> <<"l","u","n","c","h">>, keywords |-> <<<<"l","u","n","c","h">>, <<"m","i","d","d","a","y">>, <<"n","o","o","n">>>>],
      [meal_type |-> <<"d","i","n","n","e","r">>, keywords |-> <<<<"d","i","n","n","e","r">>, <<"s","u","p","p","e","r">>, <<"e","v","e","n","i","n","g">>>>],
      [meal_type |-> <<"d","e","s","s","e","r","t">>, keywords |-> <<<<"d","e","s","s","e","r","t">>, <<"s","w","e","e","t">>, <<"c","a","k","e">>, <<"c","o","o","k","i","e">>, <<"p","i","e">>, <<"p","u","d","d","i","n","g">>>>],
      [meal_type |-> <<"s","n","a","c","k">>, keywords |-> <<<<"s","n","a","c","k">>, <<"a","p","p","e","t","i","z","e","r">>, <<"s","t","a","r","t","e","r">>>>],
      [meal_type |-> <<"d","r","i","n","k">>, keywords |-> <<<<"d","r","i","n","k">>, <<"b","e","v","e","r","a","g","e">>, <<"s","m","o","o","t","h","i","e">>, <<"j","u","i","c","e">>, <<"s","h","a","k","e">>>>]>>

FOOD_CATEGORIES ==
    <<[category |-> <<"h","e","a","l","t","h","y">>, keywords |-> <<<<"l","i","g","h","t">>>>],
      [category |-> <<"p","a","s","t","a">>, keywords |-> <<<<"p","a","s","t","a">>>>],
      [category |-> <<"b","e","e","f">>, keywords |-> <<<<"b","e","e","f">>>>],
      [category |-> <<"i","t","a","l","i","a","n">>, keywords |-> <<<<"p","a","s","t","a">>>>]>>

COMMON_INGREDIENTS ==
    <<<<"b","e","e","f">>, <<"g","r","o","u","n","d"," ","b","e","e","f">>,
      <<"e","g","g","p","l","a","n","t">>, <<"c","a","u","l","i","f","l","o","w","e","r">>,
      <<"p","a","s","t","a">>, <<"n","o","o","d","l","e","s">>, <<"q","u","i","n","o","a">>,
      <<"e","g","g">>, <<"e","g","g","s">>,
      <<"s","u","n","f","l","o","w","e","r"," ","s","e","e","d","s">>,
      <<"o","r","e","g","a","n","o">>>>

DISH_NAMES == <<<<"p","a","s","t","a">>>>

\* _extract_ingredients: skip_words, with the dish names added
skip_words ==
    {<<"m","e","a","l">>, <<"r","e","c","i","p","e">>, <<"d","i","s","h">>,
     <<"f","o","o","d">>, <<"c","a","l","o","r","i","e">>,
     <<"c","a","l","o","r","i","e","s">>, <<"p","r","o","t","e","i","n">>,
     <<"q","u","i","c","k">>, <<"e","a","s","y">>, <<"h","e","a","l","t","h","y">>,
     <<"h","i","g","h">>, <<"l","o","w">>, <<"b","r","e","a","k","f","a","s","t">>,
     <<"l","u","n","c","h">>, <<"d","i","n","n","e","r">>,
     <<"v","e","g","e","t","a","r","i","a","n">>, <<"v","e","g","a","n">>,
     <<"w","a","n","t">>, <<"n","e","e","d">>, <<"f","i","n","d">>, <<"m","a","k","e">>}
    \cup {DISH_NAMES[i] : i \in 1..Len(DISH_NAMES)}

\* (\w+(?:\s+\w+)?): one word, or two
CapturedPhrase == Cap(1, Cat(<<Word1, Opt(Cat(<<Spaces1, Word1>>))>>))

\* _extract_ingredients: negation_patterns, in the order of the list (the text is
\* lower-cased before, so re.IGNORECASE changes nothing)
negation_patterns ==
    <<\* (?:doesn'?t|does\s*not|dont)\s+(?:have|include|contain|want|use|need)\s+(\w+(?:\s+\w+)?)
      Cat(<<Alt(<<Cat(<<Lit(<<"d","o","e","s","n">>), Opt(Lit(<<"'">>)), Lit(<<"t">>)>>), Cat(<<Lit(<<"d","o","e","s">>), Spaces0, Lit(<<"n","o","t">>)>>), Lit(<<"d","o","n","t">>)>>),
            Spaces1, Alt(<<Lit(<<"h","a","v","e">>), Lit(<<"i","n","c","l","u","d","e">>), Lit(<<"c","o","n","t","a","i","n">>), Lit(<<"w","a","n","t">>), Lit(<<"u","s","e">>), Lit(<<"n","e","e","d">>)>>),
            Spaces1, CapturedPhrase>>),
      \* (?:don'?t|do\s*not)\s+(?:want|use|add|include|need)\s+(\w+(?:\s+\w+)?)
      Cat(<<Alt(<<Cat(<<Lit(<<"d","o","n">>), Opt(Lit(<<"'">>)), Lit(<<"t">>)>>), Cat(<<Lit(<<"d","o">>), Spaces0, Lit(<<"n","o","t">>)>>)>>),
            Spaces1, Alt(<<Lit(<<"w","a","n","t">>), Lit(<<"u","s","e">>), Lit(<<"a","d","d">>), Lit(<<"i","n","c","l","u","d","e">>), Lit(<<"n","e","e","d">>)>>),
            Spaces1, CapturedPhrase>>),
      \* (?:but|and)\s+no\s+(\w+(?:\s+\w+)?)
      Cat(<<Alt(<<Lit(<<"b","u","t">>), Lit(<<"a","n","d">>)>>), Spaces1, Lit(<<"n","o">>), Spaces1, CapturedPhrase>>),
      \* without\s+(\w+(?:\s+\w+)?)
      Cat(<<Lit(<<"w","i","t","h","o","u","t">>), Spaces1, CapturedPhrase>>),
      \* \bno\s+(\w+(?:\s+\w+)?)
      Cat(<<WordBoundary, Lit(<<"n","o">>), Spaces1, CapturedPhrase>>),
      \* avoid(?:ing)?\s+(\w+(?:\s+\w+)?)
      Cat(<<Lit(<<"a","v","o","i","d">>), Opt(Lit(<<"i","n","g">>)), Spaces1, CapturedPhrase>>),
      \* exclud(?:e|ing)\s+(\w+(?:\s+\w+)?)
      Cat(<<Lit(<<"e","x","c","l","u","d">>), Alt(<<Lit(<<"e">>), Lit(<<"i","n","g">>)>>), Spaces1, CapturedPhrase>>),
      \* (\w+)[\s-]free\b
      Cat(<<Cap(1, Word1), SpaceOrHyphen, Lit(<<"f","r","e","e">>), WordBoundary>>),
      \* skip(?:ping)?\s+(\w+(?:\s+\w+)?)
      Cat(<<Lit(<<"s","k","i","p">>), Opt(Lit(<<"p","i","n","g">>)), Spaces1, CapturedPhrase>>),
      \* hold\s+(?:the\s+)?(\w+(?:\s+\w+)?)
      Cat(<<Lit(<<"h","o","l","d">>), Spaces1, Opt(Cat(<<Lit(<<"t","h","e">>), Spaces1>>)), CapturedPhrase>>),
      \* minus\s+(\w+(?:\s+\w+)?)
      Cat(<<Lit(<<"m","i","n","u","s">>), Spaces1, CapturedPhrase>>),
      \* leave\s+out\s+(\w+(?:\s+\w+)?)
      Cat(<<Lit(<<"l","e","a","v","e">>), Spaces1, Lit(<<"o","u","t">>), Spaces1, CapturedPhrase>>),
      \* not?\s+(?:any|the)\s+(\w+(?:\s+\w+)?)
      Cat(<<Lit(<<"n","o">>), Opt(Lit(<<"t">>)), Spaces1, Alt(<<Lit(<<"a","n","y">>), Lit(<<"t","h","e">>)>>), Spaces1, CapturedPhrase>>)>>

\* _extract_nutrition: patterns
nutrition_patterns ==
    <<\* at least (\d+)\s*(?:grams?|g)?\s*(?:of\s+)?(protein|fat|sodium), 'min'
      [pattern |-> Cat(<<Lit(<<"a","t"," ","l","e","a","s","t"," ">>), Cap(1, Digits1), Spaces0, Opt(Alt(<<Cat(<<Lit(<<"g","r","a","m">>), Opt(Lit(<<"s">>))>>), Lit(<<"g">>)>>)), Spaces0,
                       Opt(Cat(<<Lit(<<"o","f">>), Spaces1>>)), Cap(2, Alt(<<Lit(<<"p","r","o","t","e","i","n">>), Lit(<<"f","a","t">>), Lit(<<"s","o","d","i","u","m">>)>>))>>),
       constraint_type |-> "min"],
      \* at least (\d+)\s*(calories?|cal), 'min'
      [pattern |-> Cat(<<Lit(<<"a","t"," ","l","e","a","s","t"," ">>), Cap(1, Digits1), Spaces0, Cap(2, Alt(<<Cat(<<Lit(<<"c","a","l","o","r","i","e">>), Opt(Lit(<<"s">>))>>), Lit(<<"c","a","l">>)>>))>>),
       constraint_type |-> "min"],
      \* (?:more than|over)\s*(\d+)\s*(?:grams?|g)?\s*(?:of\s+)?(protein|fat|sodium), 'min'
      [pattern |-> Cat(<<Alt(<<Lit(<<"m","o","r","e"," ","t","h","a","n">>), Lit(<<"o","v","e","r">>)>>), Spaces0, Cap(1, Digits1), Spaces0, Opt(Alt(<<Cat(<<Lit(<<"g","r","a","m">>), Opt(Lit(<<"s">>))>>), Lit(<<"g">>)>>)), Spaces0,
                       Opt(Cat(<<Lit(<<"o","f">>), Spaces1>>)), Cap(2, Alt(<<Lit(<<"p","r","o","t","e","i","n">>), Lit(<<"f","a","t">>), Lit(<<"s","o","d","i","u","m">>)>>))>>),
       constraint_type |-> "min"],
      \* (?:less than|under)\s*(\d+)\s*(?:grams?|g)?\s*(?:of\s+)?(protein|fat|sodium), 'max'
      [pattern |-> Cat(<<Alt(<<Lit(<<"l","e","s","s"," ","t","h","a","n">>), Lit(<<"u","n","d","e","r">>)>>), Spaces0, Cap(1, Digits1), Spaces0, Opt(Alt(<<Cat(<<Lit(<<"g","r","a","m">>), Opt(Lit(<<"s">>))>>), Lit(<<"g">>)>>)), Spaces0,
                       Opt(Cat(<<Lit(<<"o","f">>), Spaces1>>)), Cap(2, Alt(<<Lit(<<"p","r","o","t","e","i","n">>), Lit(<<"f","a","t">>), Lit(<<"s","o","d","i","u","m">>)>>))>>),
       constraint_type |-> "max"],
      \* (?:less than|under)\s*(\d+)\s*(calories?|cal), 'max'
      [pattern |-> Cat(<<Alt(<<Lit(<<"l","e","s","s"," ","t","h","a","n">>), Lit(<<"u","n","d","e","r">>)>>), Spaces0, Cap(1, Digits1), Spaces0, Cap(2, Alt(<<Cat(<<Lit(<<"c","a","l","o","r","i","e">>), Opt(Lit(<<"s">>))>>), Lit(<<"c","a","l">>)>>))>>),
       constraint_type |-> "max"]>>

\* _extract_nutrition: the modifier phrases, the nutrient and the bound each sets, and
\* the value it sets; word: a word of query.split() that does the same
nutrition_modifiers ==
    <<[phrases |-> <<<<"h","i","g","h"," ","p","r","o","t","e","i","n">>, <<"h","i","g","h","-","p","r","o","t","e","i","n">>, <<"p","r","o","t","e","i","n"," ","r","i","c","h">>>>,
       word |-> <<>>, nutrient |-> "protein", bound |-> "min", value |-> 15],
      [phrases |-> <<<<"h","i","g","h"," ","c","a","l","o","r","i","e">>, <<"h","i","g","h","-","c","a","l","o","r","i","e">>, <<"c","a","l","o","r","i","e"," ","r","i","c","h">>>>,
       word |-> <<>>, nutrient |-> "calories", bound |-> "min", value |-> 400],
      [phrases |-> <<<<"h","i","g","h"," ","f","a","t">>, <<"h","i","g","h","-","f","a","t">>>>,
       word |-> <<>>, nutrient |-> "fat", bound |-> "min", value |-> 15],
      [phrases |-> <<<<"l","o","w"," ","p","r","o","t","e","i","n">>, <<"l","o","w","-","p","r","o","t","e","i","n">>>>,
       word |-> <<>>, nutrient |-> "protein", bound |-> "max", value |-> 10],
      [phrases |-> <<<<"l","o","w"," ","f","a","t">>, <<"l","o","w","-","f","a","t">>>>,
       word |-> <<>>, nutrient |-> "fat", bound |-> "max", value |-> 10],
      [phrases |-> <<<<"l","o","w"," ","c","a","l","o","r","i","e">>, <<"l","o","w","-","c","a","l","o","r","i","e">>>>,
       word |-> <<"l","i","g","h","t">>, nutrient |-> "calories", bound |-> "max", value |-> 300],
      [phrases |-> <<<<"l","o","w"," ","s","o","d","i","u","m">>, <<"l","o","w","-","s","o","d","i","u","m">>, <<"l","o","w"," ","s","a","l","t">>>>,
       word |-> <<>>, nutrient |-> "sodium", bound |-> "max", value |-> 400],
      [phrases |-> <<<<"l","o","w"," ","s","u","g","a","r">>, <<"l","o","w","-","s","u","g","a","r">>, <<"s","u","g","a","r"," ","f","r","e","e">>>>,
       word |-> <<>>, nutrient |-> "sugar", bound |-> "max", value |-> 5]>>

t_calorie == <<"c","a","l","o","r","i","e">>
t_cal == <<"c","a","l">>
t_protein == <<"p","r","o","t","e","i","n">>
t_fat == <<"f","a","t">>

\* the phrases the texts of the model are made of
IngredientPhrases ==
    {<<"e","g","g">>, <<"b","e","e","f">>, <<"p","a","s","t","a">>,
     <<"w","i","t","h","o","u","t">>, <<"n","o">>, <<"a","n","d">>, <<"f","r","e","e">>,
     <<"l","o","w">>,
     <<"a","n","d"," ","u","n","d","e","r"," ","2","0","0"," ","c","a","l","o","r","i","e","s"," ","w","i","t","h"," ","b","e","e","f">>}

NutritionPhrases ==
    {<<"a","t"," ","l","e","a","s","t"," ","3","0","g"," ","p","r","o","t","e","i","n">>,
     <<"h","i","g","h"," ","p","r","o","t","e","i","n">>,
     <<"l","o","w"," ","p","r","o","t","e","i","n">>,
     <<"u","n","d","e","r"," ","2","0","0"," ","c","a","l","o","r","i","e","s">>,
     <<"l","o","w"," ","c","a","l","o","r","i","e">>,
     <<"l","e","s","s"," ","t","h","a","n"," ","1","0"," ","g","r","a","m","s"," ","o","f"," ","p","r","o","t","e","i","n">>,
     <<"l","i","g","h","t">>}


RECURSIVE Strip(_)
\* str.strip()
Strip(s) ==
    IF s # <<>> /\ IsSpace(Head(s)) THEN Strip(Tail(s))
    ELSE IF s # <<>> /\ IsSpace(s[Len(s)]) THEN Strip(SubSeq(s, 1, Len(s) - 1))
    ELSE s

\* str.find(n): where n first occurs in h (0-based), for an n that occurs in h
Find(h, n) ==
    CHOOSE i \in 0..(Len(h) - Len(n)) :
        /\ SubSeq(h, i + 1, i + Len(n)) = n
        /\ \A j \in 0..(i - 1) : SubSeq(h, j + 1, j + Len(n)) # n

RECURSIVE ToInt(_)
\* int(digits)
ToInt(digits) ==
    IF digits = <<>> THEN 0
    ELSE 10 * ToInt(SubSeq(digits, 1, Len(digits) - 1))
         + IndexOf(DigitChars, digits[Len(digits)])

\* any(keyword in query for keyword in keywords)
AnyKeyword(keywords, query) == \E k \in 1..Len(keywords) : Contains(query, keywords[k])

\* the first dish name that occurs in the query
extract_dish_name(query) ==
    IF AnyKeyword(DISH_NAMES, query)
    THEN DISH_NAMES[CHOOSE i \in 1..Len(DISH_NAMES) :
                        /\ Contains(query, DISH_NAMES[i])
                        /\ \A j \in 1..(i - 1) : ~Contains(query, DISH_NAMES[j])]
    ELSE None

\* the first meal type one of whose keywords occurs in the query
extract_meal_type(query) ==
    IF \E i \in 1..Len(MEAL_TYPES) : AnyKeyword(MEAL_TYPES[i].keywords, query)
    THEN MEAL_TYPES[CHOOSE i \in 1..Len(MEAL_TYPES) :
                        /\ AnyKeyword(MEAL_TYPES[i].keywords, query)
                        /\ \A j \in 1..(i - 1) : ~AnyKeyword(MEAL_TYPES[j].keywords, query)
                   ].meal_type
    ELSE None

\* every category one of whose keywords occurs in the query, in the order of the table
extract_categories(query) ==
    LET Matches(entry) == AnyKeyword(entry.keywords, query)
        found == SelectSeq(FOOD_CATEGORIES, Matches)
    IN  [i \in 1..Len(found) |-> found[i].category] \o <<>>

\* The loops of the parser are recursions that carry the list built so far; each
\* round's list is evaluated (its length looked at) before the next round begins,
\* so that the evaluation does not pile up the rounds lazily.

RECURSIVE add_excluded(_, _, _)
\* the inner loop of the exclusion step: the ingredients one captured phrase excludes,
\* from the k-th of COMMON_INGREDIENTS on
add_excluded(excluded, excluded_item, k) ==
    IF k > Len(COMMON_INGREDIENTS) THEN excluded
    ELSE LET ing == COMMON_INGREDIENTS[k]
             appended == IF /\ Contains(ing, excluded_item) \/ Contains(excluded_item, ing)
                            /\ ~InList(ing, excluded)
                            /\ ing \notin skip_words
                         THEN Append(excluded, ing)
                         ELSE excluded
         IN  IF Len(appended) >= 0 THEN add_excluded(appended, excluded_item, k + 1)
             ELSE appended

RECURSIVE exclude_matches(_, _, _)
\* the matches of one pattern, from left to right
exclude_matches(excluded, query, matches) ==
    IF matches = <<>> THEN excluded
    ELSE LET appended == add_excluded(excluded,
                                      Lower(Strip(Group(query, Head(matches), 1))), 1)
         IN  IF Len(appended) >= 0 THEN exclude_matches(appended, query, Tail(matches))
             ELSE appended

RECURSIVE find_excluded(_, _, _)
\* the exclusion step, from the p-th negation pattern on
find_excluded(excluded, query, p) ==
    IF p > Len(negation_patterns) THEN excluded
    ELSE LET appended == exclude_matches(excluded, query,
                                         FindIter(negation_patterns[p], query))
         IN  IF Len(appended) >= 0 THEN find_excluded(appended, query, p + 1)
             ELSE appended

\* is_negated without the look at the excluded list
is_negated_by_context(query, ingredient, excluded) ==
    LET ing_pos == Find(query, ingredient)
        context == Lower(SubSeq(query, Max2(0, ing_pos - 30) + 1, ing_pos))
    IN  \E neg \in NEGATION_WORDS : Contains(context, neg)

\* is_negated with the whole text before the ingredient as the context
is_negated_whole_prefix(query, ingredient, excluded) ==
    LET ing_pos == Find(query, ingredient)
        context == Lower(SubSeq(query, 1, ing_pos))
    IN  \/ \E neg \in NEGATION_WORDS : Contains(context, neg)
        \/ InList(ingredient, excluded)

\* is_negated of the inclusion step, for an ingredient that occurs in the query
is_negated(query, ingredient, excluded) ==
    LET ing_pos == Find(query, ingredient)
        context == Lower(SubSeq(query, Max2(0, ing_pos - 30) + 1, ing_pos))
    IN  \/ \E neg \in NEGATION_WORDS : Contains(context, neg)
        \/ InList(ingredient, excluded)

RECURSIVE find_included(_, _, _, _)
\* the inclusion step, from the k-th of COMMON_INGREDIENTS on
find_included(included, query, excluded, k) ==
    IF k > Len(COMMON_INGREDIENTS) THEN included
    ELSE LET ingredient == COMMON_INGREDIENTS[k]
             appended == IF /\ Contains(query, ingredient)
                            /\ ~InList(ingredient, DISH_NAMES)
                            /\ ~is_negated(query, ingredient, excluded)
                            /\ ~InList(ingredient, included)
                         THEN Append(included, ingredient)
                         ELSE included
         IN  IF Len(appended) >= 0 THEN find_included(appended, query, excluded, k + 1)
             ELSE appended

\* (included[:10], excluded[:10])
extract_ingredients(query) ==
    LET excluded == find_excluded(<<>>, query, 1)
        included == find_included(<<>>, query, excluded, 1)
    IN  <<Take(included, 10), Take(excluded, 10)>>

\* nutrition[nutrient] = {constraint_type: value}
set_nutrient(nutrition, nutrient, constraint_type, value) ==
    (nutrient :> (constraint_type :> value)) @@ nutrition

\* nutrition.setdefault(nutrient, {})[bound] = value
setdefault_bound(nutrition, nutrient, bound, value) ==
    (nutrient :> ((bound :> value)
                  @@ (IF nutrient \in DOMAIN nutrition THEN nutrition[nutrient]
                      ELSE NoNutrition)))
    @@ nutrition

\* the nutrient a match of a numeric pattern names
nutrient_name(text) ==
    LET nutrient == Lower(text)
    IN  IF Contains(nutrient, t_calorie) \/ Contains(nutrient, t_cal) THEN "calories"
        ELSE IF nutrient = t_protein THEN "protein"
        ELSE IF nutrient = t_fat THEN "fat"
        ELSE "sodium"

RECURSIVE numeric_matches(_, _, _, _)
\* the matches of one numeric pattern, from left to right
numeric_matches(nutrition, query, constraint_type, matches) ==
    IF matches = <<>> THEN nutrition
    ELSE LET updated == set_nutrient(nutrition,
                                     nutrient_name(Group(query, Head(matches), 2)),
                                     constraint_type,
                                     ToInt(Group(query, Head(matches), 1)))
         IN  IF DOMAIN updated # {} THEN numeric_matches(updated, query, constraint_type,
                                                         Tail(matches))
             ELSE updated

RECURSIVE numeric_constraints(_, _, _)
\* the loop over the numeric patterns, from the p-th on
numeric_constraints(nutrition, query, p) ==
    IF p > Len(nutrition_patterns) THEN nutrition
    ELSE LET updated == numeric_matches(nutrition, query,
                                        nutrition_patterns[p].constraint_type,
                                        FindIter(nutrition_patterns[p].pattern, query))
         IN  IF DOMAIN updated = DOMAIN updated THEN numeric_constraints(updated, query, p + 1)
             ELSE updated

\* whether the query has a phrase of the modifier, or its word among query.split()
modifier_applies(modifier, query) ==
    \/ AnyKeyword(modifier.phrases, query)
    \/ modifier.word # <<>> /\ InList(modifier.word, Split(query))

RECURSIVE modifier_constraints(_, _, _)
\* the modifier statements, from the m-th on
modifier_constraints(nutrition, query, m) ==
    IF m > Len(nutrition_modifiers) THEN nutrition
    ELSE LET modifier == nutrition_modifiers[m]
             updated == IF modifier_applies(modifier, query)
                        THEN setdefault_bound(nutrition, modifier.nutrient, modifier.bound,
                                              modifier.value)
                        ELSE nutrition
         IN  IF DOMAIN updated = DOMAIN updated THEN modifier_constraints(updated, query, m + 1)
             ELSE updated

extract_nutrition(query) ==
    modifier_constraints(numeric_constraints(NoNutrition, query, 1), query, 1)

\* QueryParser.parse of a query the spell correction leaves as it is
parse(query) ==
    LET query_lower == Lower(query)
        ingredients == extract_ingredients(query_lower)
    IN  [original_query |-> query,
         ingredients |-> ingredients[1],
         excluded_ingredients |-> ingredients[2],
         categories |-> extract_categories(query_lower),
         meal_type |-> extract_meal_type(query_lower),
         nutrition |-> extract_nutrition(query_lower),
         dish_name |-> extract_dish_name(query_lower)]

RECURSIVE PhraseLists(_, _)
\* the lists of at most n of the phrases
PhraseLists(phrases, n) ==
    IF n = 0 THEN {<<>>}
    ELSE LET shorter == PhraseLists(phrases, n - 1)
         IN  shorter \cup {Append(l, p) : l \in {s \in shorter : Len(s) = n - 1}, p \in phrases}

\* the queries of the model: phrases separated by one space
Texts ==
    {Join(l) : l \in PhraseLists(IngredientPhrases, MaxPhrases)
                     \cup PhraseLists(NutritionPhrases, MaxPhrases)}

NoParse == [original_query |-> None, parsed |-> FALSE]

ParserIdle == parsed = NoParse

(***************************************************************************)
(* Meal plan assistant.                                                    *)
(***************************************************************************)
t_breakfast == <<"b","r","e","a","k","f","a","s","t">>
t_snack == <<"s","n","a","c","k">>
t_dinner == <<"d","i","n","n","e","r">>
t_vegetarian == <<"v","e","g","e","t","a","r","i","a","n">>
no_dairy_words == <<<<"m","i","l","k">>, <<"c","h","e","e","s","e">>, <<"b","u","t","t","e","r">>, <<"c","r","e","a","m">>, <<"y","o","g","u","r","t">>>>
no_gluten_words == <<<<"f","l","o","u","r">>, <<"w","h","e","a","t">>, <<"b","r","e","a","d">>, <<"p","a","s","t","a">>>>
no_nuts_words == <<<<"p","e","a","n","u","t">>, <<"a","l","m","o","n","d">>, <<"w","a","l","n","u","t">>, <<"c","a","s","h","e","w">>>>

PlanRecipe(title, ingredients, categories, calories, protein) ==
    [title |-> title, ingredients |-> ingredients, directions |-> <<>>,
     categories |-> categories, protein |-> protein, calories |-> calories, saturates |-> 5]

\* the recipes of the table the plans are made from
PlanPool ==
    <<PlanRecipe(<<"O","a","t","s">>, <<<<"r","o","l","l","e","d"," ","o","a","t","s">>, <<"m","i","l","k">>>>, <<<<"B","r","e","a","k","f","a","s","t">>>>, 300, 10),
      PlanRecipe(<<"E","g","g","s">>, <<<<"2"," ","e","g","g","s">>, <<"b","u","t","t","e","r">>>>, <<<<"B","r","e","a","k","f","a","s","t">>>>, 250, 20),
      PlanRecipe(<<"S","t","e","w">>, <<<<"b","e","e","f">>, <<"o","n","i","o","n">>>>, <<<<"D","i","n","n","e","r">>>>, 400, 30),
      PlanRecipe(<<"S","a","l","a","d">>, <<<<"l","e","t","t","u","c","e">>>>, <<<<"D","i","n","n","e","r">>, <<"V","e","g","e","t","a","r","i","a","n">>>>, 0, 2),
      PlanRecipe(<<"S","o","u","p">>, <<<<"o","n","i","o","n">>, <<"l","e","n","t","i","l","s">>>>,
                 <<<<"L","u","n","c","h">>, <<"D","i","n","n","e","r">>, <<"V","e","g","e","t","a","r","i","a","n">>>>, 250, 15)>>

\* a table holds some of them, in the order of the pool
Pick(pool, keep) ==
    LET RECURSIVE From(_)
        From(i) ==
            IF i > Len(pool) THEN <<>>
            ELSE (IF i \in keep THEN <<pool[i]>> ELSE <<>>) \o From(i + 1)
    IN  From(1)

PlanCatalogs == { Pick(PlanPool, keep) : keep \in SUBSET (1..Len(PlanPool)) } \ {<<>>}

\* no call of generate_meal_plan yet
NoPlan == [pc |-> "idle"]

PlanIdle == plan = NoPlan

\* dict.get(key, default)
Get(dict, key, default) == IF key \in DOMAIN dict THEN dict[key] ELSE default

\* the distribution that is the same for every meals_per_day
get_meal_type_distribution_three(meals_per_day) == <<t_breakfast, t_lunch, t_dinner>>

\* MealPlanAssistant._get_meal_type_distribution
get_meal_type_distribution(meals_per_day) ==
    IF meals_per_day = 2 THEN <<t_breakfast, t_dinner>>
    ELSE IF meals_per_day = 3 THEN <<t_breakfast, t_lunch, t_dinner>>
    ELSE IF meals_per_day = 4 THEN <<t_breakfast, t_snack, t_lunch, t_dinner>>
    ELSE <<t_breakfast, t_lunch, t_dinner>>

\* MealPlanAssistant._build_meal_constraints; the calorie band is min / den .. max / den
\* with den = 10 * meals_per_day (calories_per_meal = daily_calories / meals_per_day)
build_meal_constraints(meal_type, preferences, nutrition_goals, meals_per_day, day_calories) ==
    LET daily_calories == Get(nutrition_goals, "calories", 2000)
        remaining_calories == daily_calories - day_calories
        den == 10 * meals_per_day
        excluded == (IF "no_dairy" \in preferences THEN no_dairy_words ELSE <<>>)
                    \o (IF "no_gluten" \in preferences THEN no_gluten_words ELSE <<>>)
                    \o (IF "no_nuts" \in preferences THEN no_nuts_words ELSE <<>>)
    IN  [meal_type |-> meal_type,
         calories |-> IF remaining_calories > 0
                      THEN [set |-> TRUE,
                            min |-> Max2(50 * den, 7 * daily_calories),
                            max |-> Min2(remaining_calories * den, 13 * daily_calories),
                            den |-> den]
                      ELSE [set |-> FALSE],
         protein_min |-> IF "high_protein" \in preferences THEN 20
                         ELSE IF Get(nutrition_goals, "protein", 0) >= 100
                                 /\ meal_type \in {t_breakfast, t_lunch, t_dinner}
                              THEN 15
                         ELSE 0,
         vegetarian |-> "vegetarian" \in preferences,
         carb_max |-> IF "low_carb" \in preferences THEN 30 ELSE 0,
         excluded_ingredients |-> excluded]

\* a fallback lookup that keeps the vegetarian filter
relaxed_constraints_vegetarian(meal_type) ==
    [meal_type |-> meal_type, calories |-> [set |-> FALSE], protein_min |-> 0,
     vegetarian |-> TRUE, carb_max |-> 0, excluded_ingredients |-> <<>>]

\* the constraints of the fallback lookup: {'meal_type': meal_type}
relaxed_constraints(meal_type) ==
    [meal_type |-> meal_type, calories |-> [set |-> FALSE], protein_min |-> 0,
     vegetarian |-> FALSE, carb_max |-> 0, excluded_ingredients |-> <<>>]

\* the lookup without the filter on the recipes already used
get_meal_candidates_any(rows, constraints, used_recipe_ids) ==
    { i \in 1..Len(rows) :
        LET row == rows[i]
        IN  /\ (constraints.meal_type # None => Like(row.search_text, constraints.meal_type))
            /\ (constraints.calories.set =>
                   /\ row.calories * constraints.calories.den >= constraints.calories.min
                   /\ row.calories * constraints.calories.den <= constraints.calories.max)
            /\ (constraints.protein_min # 0 => row.protein >= constraints.protein_min)
            /\ (constraints.vegetarian => Like(row.search_text, t_vegetarian))
            /\ \A k \in 1..Len(constraints.excluded_ingredients) :
                   ~Like(row.search_text, constraints.excluded_ingredients[k])
            /\ row.calories > 0 }

\* MealPlanAssistant._get_meal_candidates: the rows the query selects (it returns them in
\* random order, at most limit of them)
get_meal_candidates(rows, constraints, used_recipe_ids) ==
    { i \in 1..Len(rows) :
        LET row == rows[i]
        IN  /\ (used_recipe_ids # {} => row.id \notin used_recipe_ids)
            /\ (constraints.meal_type # None => Like(row.search_text, constraints.meal_type))
            /\ (constraints.calories.set =>
                   /\ row.calories * constraints.calories.den >= constraints.calories.min
                   /\ row.calories * constraints.calories.den <= constraints.calories.max)
            /\ (constraints.protein_min # 0 => row.protein >= constraints.protein_min)
            /\ (constraints.vegetarian => Like(row.search_text, t_vegetarian))
            /\ \A k \in 1..Len(constraints.excluded_ingredients) :
                   ~Like(row.search_text, constraints.excluded_ingredients[k])
            /\ row.calories > 0 }

\* next((w for w in words if len(w) > 4), words[0] if words else '')
main_word(ing) ==
    LET words == Split(Lower(ing))
        Long(w) == Len(w) > 4
        long == SelectSeq(words, Long)
    IN  IF long # <<>> THEN long[1] ELSE IF words # <<>> THEN words[1] ELSE <<>>

\* the main words of the first five ingredients of a recipe
tracked_words(recipe) ==
    LET first5 == Take(recipe.ingredients, 5)
        NotEmpty(w) == w # <<>>
    IN  SelectSeq([i \in 1..Len(first5) |-> main_word(first5[i])], NotEmpty)

\* twice the variety score: new_ingredients - repeated_ingredients * 0.5
variety_score2(recipe, used_ingredients) ==
    LET words == tracked_words(recipe)
        new_ingredients == Cardinality({i \in 1..Len(words) : ~InList(words[i], used_ingredients)})
        repeated_ingredients == Len(words) - new_ingredients
    IN  2 * new_ingredients - repeated_ingredients

\* MealPlanAssistant._select_recipe_with_variety: the candidates some values of
\* random.random() in [0, 1) and some order of the candidates select.  variety_weight is
\* in tenths; total scores are compared times twenty.
select_recipe_with_variety(rows, candidates, used_ingredients, variety_weight) ==
    IF variety_weight < 1 THEN candidates
    ELSE LET low(i) == variety_score2(rows[i], used_ingredients) * variety_weight
             top(i) == low(i) + 2 * (10 - variety_weight)
             can_be_best(i) ==
                 IF variety_weight = 10
                 THEN low(i) > -20 /\ \A j \in candidates : low(i) >= low(j)
                 ELSE top(i) > -20 /\ \A j \in candidates \ {i} : top(i) > low(j)
             none_can_beat_minus_one == \A j \in candidates : low(j) <= -20
         IN  { i \in candidates : can_be_best(i) \/ none_can_beat_minus_one }

(***************************************************************************)
(* Similarity engine.  The text similarity is computed by scikit-learn     *)
(* (TF-IDF and cosine) and the nutrition similarity by numpy (exp of a     *)
(* distance): the model lets each be any value of a small grid of          *)
(* thousandths, except where the source fixes it (equal nutrition vectors  *)
(* are at distance 0 and exp(0) is 1).                                     *)
(***************************************************************************)
\* the recipes of the table find_similar works on
SimilarPool ==
    <<PlanRecipe(<<"S","t","e","w">>, <<<<"B","e","e","f">>, <<"o","n","i","o","n","s">>>>, <<>>, 400, 30),
      PlanRecipe(<<"S","o","u","p">>, <<<<"2"," ","o","n","i","o","n","s">>, <<"b","e","e","f">>>>, <<>>, 200, 15),
      PlanRecipe(<<"H","a","s","h">>, <<<<"b","e","e","f"," ","c","u","t">>>>, <<>>, 600, 30),
      PlanRecipe(<<"T","e","a">>, <<>>, <<>>, 0, 0)>>

SimilarCatalogs == { Pick(SimilarPool, keep) : keep \in SUBSET (1..Len(SimilarPool)) } \ {<<>>}

SimilarTables == [cat \in SimilarCatalogs |-> db_rows(cat)]

\* text similarities of the grid (cosine of TF-IDF vectors: 0 to 1), in thousandths
TextSimilarities == {0, 333, 1000}

\* nutrition similarities of two different vectors (exp(-distance / 100)), in thousandths
NutritionSimilarities == {135, 607}

\* min_score arguments, in ten-thousandths (0.3 is the default)
MinScores == {3000, 6500}

\* no call of find_similar yet
NoSimilar == [pc |-> "idle"]

SimilarIdle == similar = NoSimilar

\* the walkthrough has not run
NoReport == [ran |-> FALSE]

ReportIdle == report = NoReport

\* no function called on its own yet
NoCall == [pc |-> "idle"]

CallIdle == call = NoCall

\* the route has served nothing: an empty memory cache at time 0
NoSimple == [memory_cache |-> <<>>, now |-> 0, served |-> <<>>]

SimpleIdle == simple = NoSimple

\* query(Recipe).filter(Recipe.id == recipe_id).first(): a list of no or one row
target_recipe_any(rows, recipe_id) == Take(rows, 1)

target_recipe(rows, recipe_id) ==
    LET Is(row) == row.id = recipe_id
    IN  Take(SelectSeq(rows, Is), 1)

\* the search patterns of the target: of each of its first five ingredients the first
\* two words longer than three characters that do not start with a digit; duplicates
\* removed (at most ten words, so [:10] keeps them all, whatever order the set has)
ingredient_patterns(target) ==
    LET target_ingredients == Take(target.ingredients, 5)
        Main(w) == Len(w) > 3 /\ ~IsDigit(w[1])
        main_words(ing) == Take(SelectSeq(Split(Lower(ing)), Main), 2)
        all == Flatten([i \in 1..Len(target_ingredients) |-> main_words(target_ingredients[i])])
    IN  { all[i] : i \in 1..Len(all) }

\* Recipe.calories.between(target.calories * 0.5, target.calories * 1.5), applied when
\* target.calories is positive
similar_calories_any(target, row) == TRUE

similar_calories(target, row) ==
    target.calories > 0 =>
        (target.calories <= 2 * row.calories /\ 2 * row.calories <= 3 * target.calories)

\* _get_candidate_recipes
get_candidate_recipes(rows, target, limit) ==
    LET patterns == ingredient_patterns(target)
        Passes(row) ==
            /\ row.id # target.id
            /\ patterns # {} => \E pattern \in patterns : Like(row.search_text, pattern)
            /\ similar_calories(target, row)
    IN  Take(SelectSeq(rows, Passes), limit)

\* _get_nutrition_vector: calories, protein * 10, fat * 10, sodium / 10 (the recipes of
\* the model have no fat and no sodium: `or 0`)
get_nutrition_vector(recipe) == <<recipe.calories, recipe.protein * 10, 0, 0>>

\* _calculate_nutrition_similarity: the values it can give for the candidates
calculate_nutrition_similarity(target, candidates) ==
    { s \in [1..Len(candidates) -> NutritionSimilarities \cup {1000}] :
        \A i \in 1..Len(candidates) :
            s[i] = 1000 <=> get_nutrition_vector(candidates[i]) = get_nutrition_vector(target) }

\* combined_scores = 0.7 * text_similarities + 0.3 * nutrition_similarities, in
\* ten-thousandths
combined_scores(text_similarities, nutrition_similarities) ==
    [i \in DOMAIN text_similarities |-> 7 * text_similarities[i] + 3 * nutrition_similarities[i]]

\* the (recipe, combined score) pairs _find_similar_recipes returns
similar_results_unfiltered(candidates, scores, min_score) ==
    SortDesc([i \in 1..Len(candidates) |-> [recipe |-> candidates[i], score |-> scores[i]]])

similar_results(candidates, scores, min_score) ==
    LET Enough(r) == r.score >= min_score
    IN  SortDesc(SelectSeq([i \in 1..Len(candidates) |->
                                [recipe |-> candidates[i], score |-> scores[i]]], Enough))

\* round(score, 3) of a score in ten-thousandths, in thousandths: a score half way
\* between two thousandths is held as a float just below or just above it
Round3(score) ==
    LET q == score \div 10
        r == score % 10
    IN  IF r < 5 THEN {q} ELSE IF r > 5 THEN {q + 1} ELSE {q, q + 1}

\* the result entry of a recipe: to_slim_dict(), similarity_score and nutrition
similar_entry(recipe, similarity_score) ==
    [id |-> recipe.id, title |-> Take(recipe.title, 100), calories |-> recipe.calories,
     protein |-> recipe.protein, similarity_score |-> similarity_score]

RECURSIVE format_similar(_)
\* the result lists find_similar can make of the ranked recipes it keeps
format_similar(first) ==
    IF first = <<>> THEN {<<>>}
    ELSE { <<similar_entry(first[1].recipe, similarity_score)>> \o rest :
             similarity_score \in Round3(first[1].score), rest \in format_similar(Tail(first)) }

\* _find_similar_recipes(target, limit, min_score): the candidates fetched and the ranked
\* (recipe, score) lists it can return for them
find_similar_recipes(rows, target, limit, min_score) ==
    LET candidates == get_candidate_recipes(rows, target, limit * 10)
    IN  IF candidates = <<>>
        THEN { [candidates |-> candidates, combined_scores |-> <<>>, ranked |-> <<>>] }
        ELSE { [candidates |-> candidates,
                combined_scores |-> combined_scores(text_similarities, nutrition_similarities),
                ranked |-> similar_results(candidates,
                                           combined_scores(text_similarities, nutrition_similarities),
                                           min_score)] :
                 text_similarities \in [1..Len(candidates) -> TextSimilarities],
                 nutrition_similarities \in calculate_nutrition_similarity(target, candidates) }

(***************************************************************************)
(* The requests.                                                           *)
(***************************************************************************)
QueryTerms == {t_egg, t_beef}

\* required and excluded ingredients: disjoint lists, as the parser makes them
IngredientChoices ==
    { <<<<>>, <<>>>>, <<<<>>, <<t_egg>>>>, <<<<>>, <<t_beef>>>>,
      <<<<t_egg>>, <<>>>>, <<<<t_egg>>, <<t_beef>>>>,
      <<<<t_beef>>, <<>>>>, <<<<t_beef>>, <<t_egg>>>>,
      <<<<t_egg, t_beef>>, <<>>>> }

Queries ==
    { ParsedQuery(d, ie[1], ie[2], c, m, n) :
        d \in {None, t_pie}, ie \in IngredientChoices, c \in {<<>>, <<t_baked>>},
        m \in {None, t_lunch}, n \in {NoNutrition, HighProtein} }

NoRequest == [max_results |-> 0]
NoPrev == [kind |-> "none"]

\* the cosine similarities the TF-IDF index may give the recipes of the catalog
Semantics(cat, db, tf) ==
    IF db \/ ~tf THEN {[i \in 1..Len(cat) |-> 0]} ELSE [1..Len(cat) -> {0, 1}]

Init ==
    /\ catalog \in Catalogs
    /\ use_database \in BOOLEAN
    /\ request = NoRequest
    /\ results = <<>>
    /\ scored = <<>>
    /\ prev = NoPrev
    /\ threaded = FALSE
    /\ SessionsIdle
    /\ PlanIdle
    /\ ParserIdle
    /\ SimilarIdle
    /\ ReportIdle
    /\ CallIdle
    /\ SimpleIdle

\* a first request: page 1 of a query (the routes call search with offset = (page - 1) * limit)
Search ==
    /\ request = NoRequest
    /\ \E pq \in Queries, n \in 1..MaxResults, tf \in (IF use_database THEN {TRUE} ELSE BOOLEAN) :
         \E sem \in Semantics(catalog, use_database, tf) :
            LET req == [parsed_query |-> pq, max_results |-> n, offset |-> 0,
                        use_tfidf |-> tf, semantic |-> sem]
            IN  /\ request' = req
                /\ results' = search(catalog, use_database, req)
                /\ scored' = rule_scores(catalog, use_database, req)
    /\ UNCHANGED <<catalog, use_database, prev>>
    /\ UNCHANGED <<session_vars, plan, parsed, similar, report, call, simple>>

\* the same query, next page
NextPage ==
    /\ request # NoRequest
    /\ prev.kind \in {"none", "page"}
    /\ request.offset + request.max_results < MaxPage * request.max_results
    /\ LET req == [request EXCEPT !.offset = @ + request.max_results]
       IN  /\ request' = req
           /\ results' = search(catalog, use_database, req)
           /\ scored' = rule_scores(catalog, use_database, req)
    /\ prev' = [kind |-> "page", request |-> request, results |-> results, scored |-> scored]
    /\ UNCHANGED <<catalog, use_database>>
    /\ UNCHANGED <<session_vars, plan, parsed, similar, report, call, simple>>

\* the same query with one more required ingredient
AddIngredient ==
    /\ request # NoRequest
    /\ prev.kind = "none"
    /\ \E g \in QueryTerms :
         /\ ~InList(g, request.parsed_query.ingredients)
         /\ ~InList(g, request.parsed_query.excluded_ingredients)
         /\ LET req == [request EXCEPT !.parsed_query.ingredients = Append(@, g)]
            IN  /\ request' = req
                /\ results' = search(catalog, use_database, req)
                /\ scored' = rule_scores(catalog, use_database, req)
         /\ prev' = [kind |-> "refine", request |-> request, results |-> results,
                     scored |-> scored, added |-> g]
    /\ UNCHANGED <<catalog, use_database>>
    /\ UNCHANGED <<session_vars, plan, parsed, similar, report, call, simple>>

Next == Search \/ NextPage \/ AddIngredient

Spec == Init /\ [][Next]_vars

SearchIdle ==
    /\ catalog = <<>>
    /\ use_database = TRUE
    /\ request = NoRequest
    /\ results = <<>>
    /\ scored = <<>>
    /\ prev = NoPrev

SessionNext ==
    \/ \E r \in Requests : Acquire(r)
    \/ \E r \in Requests : Query(r)
    \/ \E r \in Requests : Candidates(r)
    \/ \E r \in Requests : Score(r)
    \/ \E r \in Requests : Finally(r)

\* one request at a time
InitSequential == SearchIdle /\ SessionsIdle /\ PlanIdle /\ ParserIdle /\ SimilarIdle /\ ReportIdle /\ CallIdle /\ SimpleIdle /\ threaded = FALSE

SpecSequential == InitSequential /\ [][SessionNext]_vars

\* requests handled by concurrent threads
InitThreaded == SearchIdle /\ SessionsIdle /\ PlanIdle /\ ParserIdle /\ SimilarIdle /\ ReportIdle /\ CallIdle /\ SimpleIdle /\ threaded = TRUE

SpecThreaded == InitThreaded /\ [][SessionNext]_vars

Preferences == {{}, {"vegetarian"}, {"high_protein"}, {"no_dairy"}, {"low_carb"}}

\* daily targets: a moderate and a high protein goal, a goal of zero, and a goal for a
\* nutrient that the meals carry and the summary does not add up
NutritionGoals ==
    {[calories |-> 600, protein |-> 50], [calories |-> 600, protein |-> 120],
     [calories |-> 600, protein |-> 0], [calories |-> 600, saturates |-> 20]}

VarietyWeights == {0, 7, 10}

\* the days argument: in the range, below it, and above it (TooManyDays)
TooManyDays == 8
PlanDays == 0..MaxDays \cup {TooManyDays}

\* the meals_per_day argument: below the range (clamped to 2), in it, and above it
\* (clamped to 4), so that each of the three slot lists is used
MealsPerDay == {1, 3, 5}

\* no summary yet
NoSummary == [total_recipes |-> 0]

\* generate_meal_plan up to the loops of _generate_plan
GeneratePlan ==
    /\ plan.pc = "idle"
    /\ \E days \in PlanDays, meals_per_day \in MealsPerDay, preferences \in Preferences,
          nutrition_goals \in NutritionGoals, variety_weight \in VarietyWeights :
         plan' = [pc |-> "meal",
                  args |-> [days |-> days, meals_per_day |-> meals_per_day],
                  days |-> Max2(1, Min2(days, 7)),
                  meals_per_day |-> Max2(2, Min2(meals_per_day, 4)),
                  preferences |-> preferences,
                  nutrition_goals |-> nutrition_goals,
                  variety_weight |-> variety_weight,
                  meal_types |-> get_meal_type_distribution(Max2(2, Min2(meals_per_day, 4))),
                  day_num |-> 1,
                  meal_idx |-> 0,
                  used_recipe_ids |-> {},
                  used_ingredients |-> <<>>,
                  day_meals |-> <<>>,
                  day_calories |-> 0,
                  day_protein |-> 0,
                  meal_plan |-> <<>>,
                  summary |-> NoSummary]
    /\ UNCHANGED <<search_vars, session_vars, parsed, similar, report, call, simple>>

\* the plan ends at the first slot
next_slot_stop(p) == [p EXCEPT !.pc = "summary"]

\* the end of one pass of the inner loop: the next meal, or the day is added to the plan
\* and the next day begins, or the plan is complete
next_slot(p) ==
    IF p.meal_idx + 1 < Len(p.meal_types)
    THEN [p EXCEPT !.meal_idx = @ + 1]
    ELSE [p EXCEPT !.meal_plan = Append(@, [day |-> p.day_num, meals |-> p.day_meals,
                                             daily_totals |-> [calories |-> p.day_calories,
                                                               protein |-> p.day_protein]]),
                   !.day_num = @ + 1,
                   !.meal_idx = 0,
                   !.day_meals = <<>>,
                   !.day_calories = 0,
                   !.day_protein = 0,
                   !.pc = IF p.day_num + 1 > p.days THEN "summary" ELSE "meal"]

\* the recipes table of each catalog
PlanTables == [cat \in PlanCatalogs |-> db_rows(cat)]

\* one pass of the inner loop of _generate_plan: one meal of one day
PlanMeal ==
    /\ plan.pc = "meal"
    /\ LET rows == PlanTables[catalog]
           meal_type == plan.meal_types[plan.meal_idx + 1]
           constraints == build_meal_constraints(meal_type, plan.preferences,
                              plan.nutrition_goals, plan.meals_per_day, plan.day_calories)
           primary == get_meal_candidates(rows, constraints, plan.used_recipe_ids)
           candidates == IF primary # {} THEN primary
                         ELSE get_meal_candidates(rows, relaxed_constraints(meal_type),
                                                  plan.used_recipe_ids)
       IN  IF candidates # {}
           THEN \E i \in select_recipe_with_variety(rows, candidates, plan.used_ingredients,
                                                    plan.variety_weight) :
                   LET selected == rows[i]
                       meal_dict == [id |-> selected.id, title |-> selected.title,
                                     meal_type |-> meal_type,
                                     meal_number |-> plan.meal_idx + 1,
                                     nutrition |-> [calories |-> selected.calories,
                                                    protein |-> selected.protein,
                                                    saturates |-> selected.saturates],
                                     lookup |-> IF primary # {} THEN "primary" ELSE "relaxed"]
                   IN  plan' = next_slot([plan EXCEPT
                                  !.day_meals = Append(@, meal_dict),
                                  !.used_recipe_ids = @ \cup {selected.id},
                                  !.day_calories = @ + selected.calories,
                                  !.day_protein = @ + selected.protein,
                                  !.used_ingredients = @ \o tracked_words(selected)])
           ELSE plan' = next_slot(plan)
    /\ UNCHANGED <<search_vars, session_vars, parsed, similar, report, call, simple>>

\* round(n / d, 1) for n >= 0 and d > 0, in tenths.  A value half way between two tenths
\* that a binary float holds exactly (.25, .75) goes to the even tenth; any other such
\* value is held as a float just below or just above it, and goes either way.
Round1(n, d) ==
    LET q == (10 * n) \div d
        r == (10 * n) % d
    IN  IF 2 * r < d THEN {q}
        ELSE IF 2 * r > d THEN {q + 1}
        ELSE IF (2 * q + 1) % 5 = 0 THEN {IF q % 2 = 0 THEN q ELSE q + 1}
        ELSE {q, q + 1}

\* the nutrients _calculate_nutrition_summary adds up
SummaryNutrients == {"calories", "protein", "fat", "sodium", "sugar"}

RECURSIVE SumNutrient(_, _)
\* total_nutrition[nutrient] over the meals: sum of nutrition.get(nutrient, 0)
SumNutrient(meals, nutrient) ==
    IF meals = <<>> THEN 0
    ELSE Get(Head(meals).nutrition, nutrient, 0) + SumNutrient(Tail(meals), nutrient)

\* for day in meal_plan: for meal in day['meals']
all_meals(meal_plan) == Flatten([d \in 1..Len(meal_plan) |-> meal_plan[d].meals])

total_nutrition(meal_plan) ==
    [nutrient \in SummaryNutrients |-> SumNutrient(all_meals(meal_plan), nutrient)]

RECURSIVE round_each(_, _, _)
\* the values avg_nutrition can have, in tenths: round(total / num_days, 1) of each nutrient
round_each(keys, total, num_days) ==
    IF keys = {} THEN {NoNutrition}
    ELSE LET nutrient == CHOOSE k \in keys : TRUE
         IN  { (nutrient :> a) @@ rest :
                  a \in Round1(total[nutrient], num_days),
                  rest \in round_each(keys \ {nutrient}, total, num_days) }

avg_nutritions(meal_plan) ==
    round_each(SummaryNutrients, total_nutrition(meal_plan), Len(meal_plan))

RECURSIVE goal_achievements(_, _, _)
\* the values goal_achievement can have for the nutrients of keys; actual is in tenths,
\* achievement in tenths of a percent
goal_achievements(keys, nutrition_goals, avg_nutrition) ==
    IF keys = {} THEN {NoNutrition}
    ELSE LET nutrient == CHOOSE k \in keys : TRUE
             goal_value == nutrition_goals[nutrient]
             actual_value == Get(avg_nutrition, nutrient, 0)
             others == goal_achievements(keys \ {nutrient}, nutrition_goals, avg_nutrition)
         IN  IF goal_value > 0
             THEN { (nutrient :> [target |-> goal_value, actual |-> actual_value,
                                  achievement |-> a]) @@ rest :
                      a \in Round1(actual_value * 100, goal_value * 10), rest \in others }
             ELSE others

\* MealPlanAssistant._calculate_nutrition_summary: the summaries it can return
calculate_nutrition_summary(meal_plan, nutrition_goals) ==
    UNION { { [total_nutrition |-> total_nutrition(meal_plan),
               daily_average |-> avg,
               goal_achievement |-> achieved,
               total_recipes |-> Len(all_meals(meal_plan))] :
                achieved \in goal_achievements(DOMAIN nutrition_goals, nutrition_goals, avg) } :
            avg \in avg_nutritions(meal_plan) }

\* generate_meal_plan after _generate_plan: the summary, and the plan is returned
Summarize ==
    /\ plan.pc = "summary"
    /\ \E summary \in calculate_nutrition_summary(plan.meal_plan, plan.nutrition_goals) :
          plan' = [plan EXCEPT !.pc = "done", !.summary = summary]
    /\ UNCHANGED <<search_vars, session_vars, parsed, similar, report, call, simple>>

InitPlan ==
    /\ catalog \in PlanCatalogs
    /\ use_database = TRUE
    /\ request = NoRequest
    /\ results = <<>>
    /\ scored = <<>>
    /\ prev = NoPrev
    /\ threaded = FALSE
    /\ SessionsIdle
    /\ PlanIdle
    /\ ParserIdle
    /\ SimilarIdle
    /\ ReportIdle
    /\ CallIdle
    /\ SimpleIdle

NextPlan == GeneratePlan \/ PlanMeal \/ Summarize

SpecPlan == InitPlan /\ [][NextPlan]_vars

(***************************************************************************)
(* The query parser on its own: a call of parse on each query.             *)
(***************************************************************************)
\* QueryParser.parse(query); parse keeps nothing from one call to the next, so the
\* calls are taken one by one, each from the parser as constructed
Parse ==
    /\ ParserIdle
    /\ \E query \in Texts : parsed' = parse(query)
    /\ UNCHANGED <<search_vars, session_vars, plan, similar, report, call, simple>>

InitParse == SearchIdle /\ SessionsIdle /\ PlanIdle /\ ParserIdle /\ SimilarIdle /\ ReportIdle /\ CallIdle /\ SimpleIdle /\ threaded = FALSE

NextParse == Parse

SpecParse == InitParse /\ [][NextParse]_vars

(***************************************************************************)
(* The similarity engine on its own: a call of find_similar on a table.    *)
(* (Its session is followed in the specifications of the sessions.)        *)
(***************************************************************************)
\* SimilarityEngine.find_similar(recipe_id, limit, min_score); `queries` lists the
\* queries the call sent to the table, `combined_scores` the score of each candidate
FindSimilar ==
    /\ SimilarIdle
    /\ \E recipe_id \in 0..(Len(catalog) + 1), limit \in 0..MaxSimilar, min_score \in MinScores :
        LET rows == SimilarTables[catalog]
            found == target_recipe(rows, recipe_id)
        IN  IF found = <<>>
            THEN similar' = [pc |-> "done", recipe_id |-> recipe_id, limit |-> limit,
                             min_score |-> min_score, queries |-> <<"target">>,
                             target |-> found, fetch_limit |-> 0, candidates |-> <<>>,
                             combined_scores |-> <<>>, ranked |-> <<>>, results |-> <<>>]
            ELSE \E found_similar \in find_similar_recipes(rows, found[1], limit * 3, min_score) :
                 \E formatted \in format_similar(Take(found_similar.ranked, limit)) :
                    similar' = [pc |-> "done", recipe_id |-> recipe_id, limit |-> limit,
                                min_score |-> min_score, queries |-> <<"target", "candidates">>,
                                target |-> found, fetch_limit |-> (limit * 3) * 10,
                                candidates |-> found_similar.candidates,
                                combined_scores |-> found_similar.combined_scores,
                                ranked |-> found_similar.ranked, results |-> formatted]
    /\ UNCHANGED <<search_vars, session_vars, plan, parsed, report, call, simple>>

InitSimilar ==
    /\ catalog \in SimilarCatalogs
    /\ use_database = TRUE
    /\ request = NoRequest
    /\ results = <<>>
    /\ scored = <<>>
    /\ prev = NoPrev
    /\ threaded = FALSE
    /\ SessionsIdle
    /\ PlanIdle
    /\ ParserIdle
    /\ SimilarIdle
    /\ ReportIdle
    /\ CallIdle
    /\ SimpleIdle

NextSimilar == FindSimilar

SpecSimilar == InitSimilar /\ [][NextSimilar]_vars

(***************************************************************************)
(* Searches with nutrition bounds and with several required ingredients,   *)
(* and the walkthrough, on tables and lists that may hold a recipe with no *)
(* protein value: the columns of the table are nullable and RecipeMatcher  *)
(* takes any list of recipes (the loaders of the repository write 0 for a  *)
(* recipe without nutrition data, so such a recipe comes from elsewhere).  *)
(***************************************************************************)
CasePool ==
    <<RawRecipe(<<"E","g","g"," ","B","e","e","f"," ","P","i","e">>, <<>>, <<>>, 40),
      RawRecipe(t_Pie, <<t_2_Eggs>>, <<>>, NoValue),
      RawRecipe(t_Egg, <<t_Beef>>, <<t_Lunch>>, 5),
      RawRecipe(<<"B","e","e","f"," ","P","i","e">>, <<t_Egg>>, <<>>, 20)>>

CaseCatalogs == { Pick(CasePool, keep) : keep \in SUBSET (1..Len(CasePool)) } \ {<<>>}

\* 'low protein' and 'high protein ... less than 30 protein'
LowProtein == [n \in {"protein"} |-> [b \in {"max"} |-> 10]]
ProteinBetween == [n \in {"protein"} |-> [b \in {"min", "max"} |-> IF b = "min" THEN 15 ELSE 30]]

CaseQueries ==
    { ParsedQuery(d, i, <<>>, <<>>, None, n) :
        d \in {None, t_pie}, i \in {<<>>, <<t_egg>>, <<t_egg, t_beef>>},
        n \in {NoNutrition, HighProtein, LowProtein, ProteinBetween} }

\* RecipeMatcher.search(parsed_query, max_results) in either mode
SearchCase ==
    /\ request = NoRequest
    /\ ReportIdle
    /\ \E pq \in CaseQueries, n \in 1..MaxResults, tf \in (IF use_database THEN {TRUE} ELSE BOOLEAN) :
         \E sem \in Semantics(catalog, use_database, tf) :
            LET req == [parsed_query |-> pq, max_results |-> n, offset |-> 0,
                        use_tfidf |-> tf, semantic |-> sem]
            IN  /\ request' = req
                /\ results' = search(catalog, use_database, req)
                /\ scored' = rule_scores(catalog, use_database, req)
    /\ UNCHANGED <<catalog, use_database, prev>>
    /\ UNCHANGED <<session_vars, plan, parsed, similar, report, call, simple>>

\* run_case.py main: needs DATABASE_URL; searches, then evaluates every result again
RunCase ==
    /\ request = NoRequest
    /\ ReportIdle
    /\ use_database
    /\ \E pq \in CaseQueries, n \in 1..MaxResults :
            LET req == [parsed_query |-> pq, max_results |-> n, offset |-> 0,
                        use_tfidf |-> TRUE, semantic |-> [i \in 1..Len(catalog) |-> 0]]
                found == search(catalog, use_database, req)
            IN  /\ request' = req
                /\ results' = found
                /\ scored' = rule_scores(catalog, use_database, req)
                /\ report' = [ran |-> TRUE, results |-> enriched(db_rows(catalog), found, pq)]
    /\ UNCHANGED <<catalog, use_database, prev>>
    /\ UNCHANGED <<session_vars, plan, parsed, similar, call, simple>>

InitCase ==
    /\ catalog \in CaseCatalogs
    /\ use_database \in BOOLEAN
    /\ request = NoRequest
    /\ results = <<>>
    /\ scored = <<>>
    /\ prev = NoPrev
    /\ threaded = FALSE
    /\ SessionsIdle
    /\ PlanIdle
    /\ ParserIdle
    /\ SimilarIdle
    /\ ReportIdle
    /\ CallIdle
    /\ SimpleIdle

NextCase == SearchCase \/ RunCase

SpecCase == InitCase /\ [][NextCase]_vars

(***************************************************************************)
(* Calls of the two scoring functions on one row of the table:             *)
(* RecipeMatcher._calculate_recipe_score and the walkthrough's             *)
(* score_breakdown.  The titles put the dish name at every place the       *)
(* DISH NAME statements tell apart; whitespace in a title is the space.    *)
(***************************************************************************)
t_beef_pie == <<"b","e","e","f"," ","p","i","e">>

ScorePool ==
    <<RawRecipe(t_Pie, <<>>, <<>>, 20),
      RawRecipe(<<"P","i","e"," ","E","g","g">>, <<>>, <<>>, 20),
      RawRecipe(t_Egg_Pie, <<>>, <<>>, 20),
      RawRecipe(<<"E","g","g"," ","P","i","e"," ","B","e","e","f">>, <<>>, <<>>, 20),
      RawRecipe(<<"E","g","g"," ","B","e","e","f"," ","P","i","e">>, <<>>, <<>>, 20),
      RawRecipe(<<"B","e","e","f"," ","P","i","e">>, <<>>, <<>>, 20),
      RawRecipe(<<"P","i","e","s">>, <<>>, <<>>, 20),
      RawRecipe(t_Egg, <<<<"B","e","e","f"," ","P","i","e">>>>, <<>>, 20),
      RawRecipe(t_Egg, <<>>, <<>>, 20),
      RawRecipe(<<"P","i","e"," ">>, <<>>, <<>>, 20),
      RawRecipe(<<"E","g","g"," ","P","i","e"," ","B","e","e","f"," ","P","i","e">>, <<>>, <<>>, 20)>>

\* the rows of the table made of the pool
ScoreRows == { db_rows(ScorePool)[i] : i \in 1..Len(ScorePool) }

ScoreQueries ==
    { ParsedQuery(d, i, <<>>, <<>>, None, NoNutrition) :
        d \in {None, t_pie, t_beef_pie}, i \in {<<>>, <<t_egg>>, <<t_egg, t_beef>>} }

\* score_breakdown(recipe, parsed)[1]["dish_name"]["points"]
dish_name_points(recipe, parsed_query) ==
    dish_score(Lower(recipe.title), Lower(recipe.search_text), parsed_query.dish_name)

\* score = matcher._calculate_recipe_score(recipe, parsed_query)
CalculateRecipeScore ==
    /\ CallIdle
    /\ \E recipe \in ScoreRows, pq \in ScoreQueries :
         call' = [pc |-> "calculate_recipe_score", recipe |-> recipe, parsed_query |-> pq,
                        score |-> calculate_recipe_score(recipe, pq)]
    /\ UNCHANGED <<search_vars, session_vars, plan, parsed, similar, report, simple>>

\* score, breakdown = score_breakdown(recipe, parsed_query)
ScoreBreakdown ==
    /\ CallIdle
    /\ \E recipe \in ScoreRows, pq \in ScoreQueries :
         call' = [pc |-> "score_breakdown", recipe |-> recipe, parsed_query |-> pq,
                        score |-> score_breakdown(recipe, pq),
                        dish_name_points |-> dish_name_points(recipe, pq)]
    /\ UNCHANGED <<search_vars, session_vars, plan, parsed, similar, report, simple>>

InitScore ==
    /\ SearchIdle
    /\ threaded = FALSE
    /\ SessionsIdle
    /\ PlanIdle
    /\ ParserIdle
    /\ SimilarIdle
    /\ ReportIdle
    /\ CallIdle
    /\ SimpleIdle

NextScore == CalculateRecipeScore \/ ScoreBreakdown

SpecScore == InitScore /\ [][NextScore]_vars

(***************************************************************************)
(* Calls of MealPlanAssistant._select_recipe_with_variety on a list of     *)
(* candidates, a state of the ingredient counts and the values that        *)
(* random.random() returns, in tenths.                                     *)
(***************************************************************************)
t_onion == <<"o","n","i","o","n">>
t_lentils == <<"l","e","n","t","i","l","s">>
t_lettuce == <<"l","e","t","t","u","c","e">>

VarietyPool ==
    <<PlanRecipe(<<"S","t","e","w">>, <<t_beef, t_onion, t_lentils>>, <<>>, 400, 30),
      PlanRecipe(<<"H","a","s","h">>, <<t_beef, t_onion>>, <<>>, 400, 30),
      PlanRecipe(<<"S","a","l","a","d">>, <<t_lettuce>>, <<>>, 100, 2),
      PlanRecipe(<<"T","e","a">>, <<>>, <<>>, 50, 0)>>

\* the candidate lists: one or two different rows, in any order
VarietyCandidates ==
    LET rows == db_rows(VarietyPool)
    IN  { <<rows[i]>> : i \in 1..Len(rows) }
        \cup { pair \in { <<rows[i], rows[j]>> : i \in 1..Len(rows), j \in 1..Len(rows) } :
                   pair[1] # pair[2] }

\* the words with a positive count in used_ingredients
UsedIngredients == { <<>>, <<t_beef, t_onion>>, <<t_beef, t_onion, t_lentils>> }

\* values of random.random(), in [0, 1), in tenths
RandomDraws == {0, 5, 9}

\* a hundred times total_score: variety_score * variety_weight + random_factor with
\* random_factor = random.random() * (1 - variety_weight)
total_score100(recipe, used_ingredients, variety_weight, draw) ==
    5 * variety_score2(recipe, used_ingredients) * variety_weight + draw * (10 - variety_weight)

RECURSIVE best_after(_, _, _, _, _, _)
\* the loop over the candidates from the k-th on: best_recipe (0 for None) and best_score
best_after(candidates, used_ingredients, variety_weight, draws, k, best) ==
    IF k > Len(candidates) THEN best
    ELSE LET total_score == total_score100(candidates[k], used_ingredients, variety_weight, draws[k])
         IN  best_after(candidates, used_ingredients, variety_weight, draws, k + 1,
                        IF total_score > best.best_score
                        THEN [best_recipe |-> k, best_score |-> total_score]
                        ELSE best)

\* the place in the list of the recipe returned for variety_weight >= 0.1:
\* best_recipe or candidates[0]
best_recipe(candidates, used_ingredients, variety_weight, draws) ==
    LET best == best_after(candidates, used_ingredients, variety_weight, draws, 1,
                           [best_recipe |-> 0, best_score |-> -100])
    IN  IF best.best_recipe # 0 THEN best.best_recipe ELSE 1

\* selected = self._select_recipe_with_variety(candidates, used_ingredients, variety_weight)
\* for a list that is not empty
SelectRecipeWithVariety ==
    /\ CallIdle
    /\ \E candidates \in VarietyCandidates, used_ingredients \in UsedIngredients,
          variety_weight \in VarietyWeights :
         \E draws \in (IF variety_weight < 1 THEN {<<>>} ELSE [1..Len(candidates) -> RandomDraws]),
            choice \in (IF variety_weight < 1 THEN 1..Len(candidates) ELSE {0}) :
            call' = [pc |-> "select_recipe_with_variety", candidates |-> candidates,
                     used_ingredients |-> used_ingredients, variety_weight |-> variety_weight,
                     draws |-> draws,
                     selected |-> IF variety_weight < 1 THEN choice
                                  ELSE best_recipe(candidates, used_ingredients,
                                                   variety_weight, draws)]
    /\ UNCHANGED <<search_vars, session_vars, plan, parsed, similar, report, simple>>

InitVariety ==
    /\ SearchIdle
    /\ threaded = FALSE
    /\ SessionsIdle
    /\ PlanIdle
    /\ ParserIdle
    /\ SimilarIdle
    /\ ReportIdle
    /\ CallIdle
    /\ SimpleIdle

NextVariety == SelectRecipeWithVariety

SpecVariety == InitVariety /\ [][NextVariety]_vars

(***************************************************************************)
(* The primary lookup of one slot on its own: _build_meal_constraints and  *)
(* _get_meal_candidates(constraints, used_recipe_ids, limit=50) for a slot *)
(* of a day that has the meals placed so far.  The table has a breakfast   *)
(* above every calorie band, which only the relaxed lookup places.         *)
(***************************************************************************)
LookupPool ==
    <<PlanRecipe(<<"P","a","n","c","a","k","e","s">>, <<<<"f","l","o","u","r">>, <<"m","i","l","k">>>>, <<<<"B","r","e","a","k","f","a","s","t">>>>, 700, 20),
      PlanPool[3], PlanPool[4], PlanPool[5]>>

LookupTable == db_rows(LookupPool)

\* the meals a day can have before a lunch or a dinner slot: none, the soup at lunch,
\* the pancakes at breakfast, both (rows 4 and 1 of the table)
PlacedSoFar == { <<>>, <<4>>, <<1>>, <<1, 4>> }

\* day_calories after these meals
calories_placed(placed) == SumSeq([k \in 1..Len(placed) |-> LookupTable[placed[k]].calories])

\* constraints = self._build_meal_constraints(...) and candidates =
\* self._get_meal_candidates(constraints, used_recipe_ids, limit=50)
PrimaryLookup ==
    /\ CallIdle
    /\ \E meal_type \in {t_lunch, t_dinner}, preferences \in {{}, {"vegetarian"}, {"no_dairy"}},
          nutrition_goals \in NutritionGoals, meals_per_day \in 2..4, placed \in PlacedSoFar :
         /\ InList(meal_type, get_meal_type_distribution(meals_per_day))
         /\ InList(4, placed) => (meal_type = t_dinner /\ meals_per_day >= 3)
         /\ LET used_recipe_ids == { LookupTable[placed[k]].id : k \in 1..Len(placed) }
                day_calories == calories_placed(placed)
                constraints == build_meal_constraints(meal_type, preferences, nutrition_goals,
                                                      meals_per_day, day_calories)
            IN  call' = [pc |-> "primary_lookup", meal_type |-> meal_type,
                         nutrition_goals |-> nutrition_goals, meals_per_day |-> meals_per_day,
                         preferences |-> preferences,
                         day_calories |-> day_calories, used_recipe_ids |-> used_recipe_ids,
                         candidates |-> get_meal_candidates(LookupTable, constraints,
                                                            used_recipe_ids)]
    /\ UNCHANGED <<search_vars, session_vars, plan, parsed, similar, report, simple>>

InitLookup ==
    /\ SearchIdle
    /\ threaded = FALSE
    /\ SessionsIdle
    /\ PlanIdle
    /\ ParserIdle
    /\ SimilarIdle
    /\ ReportIdle
    /\ CallIdle
    /\ SimpleIdle

NextLookup == PrimaryLookup

SpecLookup == InitLookup /\ [][NextLookup]_vars

(***************************************************************************)
(* The candidate fetch of find_similar on a table with many similar        *)
(* recipes.                                                                *)
(***************************************************************************)
\* a table of beef stews of 400 kcal; the second one has 1000 kcal
LargeTable(size) ==
    db_rows([i \in 1..size |->
                PlanRecipe(<<"S","t","e","w">>, <<<<"b","e","e","f">>>>, <<>>,
                           IF i = 2 THEN 1000 ELSE 400, 30)])

\* find_similar(recipe_id, limit) up to the candidates it fetches: the target, then
\* _find_similar_recipes(target, limit * 3, min_score), which fetches
\* _get_candidate_recipes(target, limit * 10) with its own limit, three times that of
\* find_similar; every candidate fetched is scored
FetchCandidates ==
    /\ CallIdle
    /\ \E size \in 1..MaxTable, limit \in 0..MaxSimilar :
       \E recipe_id \in 0..size :
         LET rows == LargeTable(size)
             found == target_recipe(rows, recipe_id)
             candidates == IF found = <<>> THEN <<>>
                           ELSE get_candidate_recipes(rows, found[1], (limit * 3) * 10)
         IN  call' = [pc |-> "find_similar", table_size |-> size, recipe_id |-> recipe_id,
                      limit |-> limit, target |-> found,
                      candidates |-> [i \in 1..Len(candidates) |-> candidates[i].id] \o <<>>]
    /\ UNCHANGED <<search_vars, session_vars, plan, parsed, similar, report, simple>>

InitFetch ==
    /\ SearchIdle
    /\ threaded = FALSE
    /\ SessionsIdle
    /\ PlanIdle
    /\ ParserIdle
    /\ SimilarIdle
    /\ ReportIdle
    /\ CallIdle
    /\ SimpleIdle

NextFetch == FetchCandidates

SpecFetch == InitFetch /\ [][NextFetch]_vars

(***************************************************************************)
(* GET /search/simple with the in-memory cache of core/cache.py.  The      *)
(* answer leaves out query_time_ms, the time the request took.             *)
(***************************************************************************)
t_egg_query == <<"e","g","g"," ","1","7","5","7","0","6","0","8","0","2","8","6","5","6","2">>
t_beef_query == <<"b","e","e","f"," ","7","1","5","3","6","5","6","4","9","1","8","2","5">>

\* the table the route searches
SimpleTable == db_rows(<<RawRecipe(t_Pie, <<t_2_Eggs>>, <<>>, 20),
                         RawRecipe(t_Egg_Pie, <<>>, <<t_Baked>>, 5),
                         RawRecipe(t_Egg, <<t_Beef>>, <<t_Lunch>>, 20)>>)

\* the query parameters q, limit and page of the requests; no q at all is the empty text
SimpleRequests ==
    { [q |-> t_egg_query, limit |-> 20, page |-> 1],
      [q |-> t_beef_query, limit |-> 20, page |-> 1],
      [q |-> t_egg_query, limit |-> 20, page |-> 2],
      [q |-> t_egg_query, limit |-> 20, page |-> 0],
      [q |-> t_egg_query, limit |-> 100, page |-> 1],
      [q |-> t_egg_query, limit |-> 150, page |-> 1],
      [q |-> <<>>, limit |-> 20, page |-> 1] }

\* seconds the clock moves on between requests
TickSeconds == 150

\* cache.set(cache_key, response, ttl=300)
SimpleTtl == 300

RECURSIVE StrInt(_)
\* str(n) of an n >= 0
StrInt(n) ==
    IF n < 10 THEN <<DigitChars[n + 1]>>
    ELSE StrInt(n \div 10) \o <<DigitChars[(n % 10) + 1]>>

\* hashlib.md5(key_string.encode()).hexdigest() of the key strings of these requests
md5_hexdigest ==
    <<[key_string |-> <<"l","i","m","i","t","=","2","0",":","p","a","g","e","=","1",":","q","u","e","r","y","=","e","g","g"," ","1","7","5","7","0","6","0","8","0","2","8","6","5","6","2">>,
       hexdigest |-> <<"6","3","5","f","5","5","d","1","1","5","e","5","d","e","0","d","e","6","a","e","3","2","b","b","f","5","0","b","a","5","3","b">>],
      [key_string |-> <<"l","i","m","i","t","=","2","0",":","p","a","g","e","=","1",":","q","u","e","r","y","=","b","e","e","f"," ","7","1","5","3","6","5","6","4","9","1","8","2","5">>,
       hexdigest |-> <<"6","3","5","f","5","5","d","1","1","5","e","5","d","9","a","2","a","d","8","9","3","0","c","8","0","b","e","a","9","3","f","4">>],
      [key_string |-> <<"l","i","m","i","t","=","2","0",":","p","a","g","e","=","2",":","q","u","e","r","y","=","e","g","g"," ","1","7","5","7","0","6","0","8","0","2","8","6","5","6","2">>,
       hexdigest |-> <<"4","a","a","a","e","9","7","7","a","f","0","d","d","c","5","1","a","7","f","f","f","2","6","d","3","6","7","e","9","0","5","0">>],
      [key_string |-> <<"l","i","m","i","t","=","1","0","0",":","p","a","g","e","=","1",":","q","u","e","r","y","=","e","g","g"," ","1","7","5","7","0","6","0","8","0","2","8","6","5","6","2">>,
       hexdigest |-> <<"3","1","2","0","c","0","1","0","3","5","e","4","1","1","b","d","c","6","6","a","4","6","8","e","6","8","3","d","8","0","f","5">>]>>

hexdigest(key_string) ==
    md5_hexdigest[CHOOSE i \in 1..Len(md5_hexdigest) :
                      md5_hexdigest[i].key_string = key_string].hexdigest

\* CacheManager.generate_key(prefix, query=query, limit=limit, page=page): the keyword
\* arguments sorted by name and joined with ':', hashed, cut to 12 hex digits
generate_key(prefix, query, limit, page) ==
    LET key_string == <<"l","i","m","i","t","=">> \o StrInt(limit)
                      \o <<":","p","a","g","e","=">> \o StrInt(page)
                      \o <<":","q","u","e","r","y","=">> \o query
        key_hash == Take(hexdigest(key_string), 12)
    IN  prefix \o <<":">> \o key_hash

\* CacheManager.get(key) of the memory cache at the time now: the value of an entry
\* that has not expired; an expired entry is removed
cache_get(memory_cache, key, now) ==
    IF key \in DOMAIN memory_cache
    THEN IF memory_cache[key].expires_at > now
         THEN [hit |-> TRUE, memory_cache |-> memory_cache]
         ELSE [hit |-> FALSE,
               memory_cache |-> [k \in DOMAIN memory_cache \ {key} |-> memory_cache[k]]]
    ELSE [hit |-> FALSE, memory_cache |-> memory_cache]

\* CacheManager.set(key, value, ttl) of the memory cache at the time now (the clean-up
\* runs with more than 1000 entries only)
cache_set(memory_cache, key, value, ttl, now) ==
    (key :> [value |-> value, expires_at |-> now + ttl]) @@ memory_cache

\* the response search_simple builds from the results the matcher returns
build_response(query, limit, page, found) ==
    [query |-> query, results_count |-> Len(found), page |-> page, per_page |-> limit,
     has_next |-> Len(found) = limit, has_prev |-> page > 1,
     results |-> found, cached |-> FALSE]

\* the response of a request the cache does not answer: the parser, then the matcher
simple_response(query, limit, page) ==
    build_response(query, limit, page,
                   search_database(SimpleTable, parse(query), limit, (page - 1) * limit))

\* the responses of the requests, worked out once
SimpleResponses ==
    [r \in { [q |-> req.q, limit |-> Min2(req.limit, 100), page |-> Max2(req.page, 1)] :
               req \in {req \in SimpleRequests : req.q # <<>>} } |->
        simple_response(r.q, r.limit, r.page)]

\* the miss branch of search_simple: the response is stored for SimpleTtl seconds and
\* served
store_response(state, request_args, cache_key, memory_cache, response) ==
    [state EXCEPT
       !.memory_cache = cache_set(memory_cache, cache_key, response, SimpleTtl, state.now),
       !.served = [request |-> request_args, at |-> state.now, status |-> 200,
                   response |-> response, computed |-> TRUE]]

\* search_simple() for the query parameters q, limit and page; served: the request,
\* the time, the status, the response and whether the parser and the matcher ran
SearchSimple(q, limit_arg, page_arg) ==
    /\ LET request_args == [q |-> q, limit |-> limit_arg, page |-> page_arg]
       IN  IF q = <<>>
           THEN simple' = [simple EXCEPT
                             !.served = [request |-> request_args, at |-> simple.now,
                                         status |-> 400, response |-> <<>>,
                                         computed |-> FALSE]]
           ELSE LET limit == Min2(limit_arg, 100)
                    page == Max2(page_arg, 1)
                    cache_key == generate_key(<<"s","e","a","r","c","h">>, q, limit, page)
                    cached_result == cache_get(simple.memory_cache, cache_key, simple.now)
                IN  IF cached_result.hit
                    THEN \* cached_result['cached'] = True: the dictionary the cache holds
                         LET flagged == [simple.memory_cache EXCEPT
                                           ![cache_key].value.cached = TRUE]
                         IN  simple' = [simple EXCEPT
                                          !.memory_cache = flagged,
                                          !.served = [request |-> request_args,
                                                      at |-> simple.now, status |-> 200,
                                                      response |-> flagged[cache_key].value,
                                                      computed |-> FALSE]]
                    ELSE simple' = store_response(simple, request_args, cache_key,
                                                  cached_result.memory_cache,
                                                  SimpleResponses[[q |-> q, limit |-> limit,
                                                                   page |-> page]])
    /\ UNCHANGED <<search_vars, session_vars, plan, parsed, similar, report, call>>

\* time passes between two requests
Tick ==
    /\ simple.now < MaxTicks * TickSeconds
    /\ simple' = [simple EXCEPT !.now = @ + TickSeconds]
    /\ UNCHANGED <<search_vars, session_vars, plan, parsed, similar, report, call>>

InitSimple ==
    /\ SearchIdle
    /\ threaded = FALSE
    /\ SessionsIdle
    /\ PlanIdle
    /\ ParserIdle
    /\ SimilarIdle
    /\ ReportIdle
    /\ CallIdle
    /\ SimpleIdle

NextSimple ==
    \/ \E r \in SimpleRequests : SearchSimple(r.q, r.limit, r.page)
    \/ Tick

SpecSimple == InitSimple /\ [][NextSimple]_vars

(***************************************************************************)
(* Properties of the search.                                               *)
(***************************************************************************)
\* the title and the search_text of the recipe behind a returned entry: the row of the
\* table in indexed mode, the loaded recipe and its text in scan mode
returned_recipe(entry) ==
    IF use_database
    THEN LET row == db_rows(catalog)[entry.id]
         IN  [title |-> row.title, search_text |-> row.search_text]
    ELSE LET recipe == memory_recipes(catalog)[entry.id + 1]
         IN  [title |-> recipe.title, search_text |-> recipe_to_text(recipe)]

\* text contains term, case-insensitively
Mentions(text, term) == Contains(Lower(text), Lower(term))

C2_EveryRequiredIngredientPresent ==
    request # NoRequest =>
        \A i \in 1..Len(results) :
            \A k \in 1..Len(request.parsed_query.ingredients) :
                LET r == returned_recipe(results[i])
                    ing == request.parsed_query.ingredients[k]
                IN  Mentions(r.title, ing) \/ Mentions(r.search_text, ing)

\* the ranked result list of a query: every entry with a positive score, best first
ranking(cat, db, req) ==
    IF db
    THEN SortDesc(db_scored(db_rows(cat), req.parsed_query, req.max_results))
    ELSE search_memory(memory_recipes(cat), req.parsed_query, Len(cat),
                       req.use_tfidf, req.semantic)

\* C6: in both modes search(parsedQuery, maxResults = n, offset = k) returns the entries
\* at positions k..k+n-1 of the ranked result list, and the page that follows a page
\* shares no entry with it
C6_PagesOfOneRanking ==
    request # NoRequest =>
        /\ results = Slice(ranking(catalog, use_database, request),
                           request.offset, request.max_results)
        /\ prev.kind = "page" =>
              \A i \in 1..Len(results), j \in 1..Len(prev.results) :
                  results[i].id # prev.results[j].id

\* C7: the score _calculate_recipe_score gives a candidate lies in 0..100, and the
\* published score of every result of the indexed mode lies in 0..1
C7_ScoreWithinHundred ==
    (request # NoRequest /\ use_database) =>
        /\ \A i \in 1..Len(scored) :
              scored[i].candidate => (0 <= scored[i].num /\ scored[i].num <= 100)
        /\ \A i \in 1..Len(results) :
              0 <= results[i].score /\ results[i].score <= results[i].den

\* C8: adding a required ingredient that a candidate already contains never lowers the
\* rule score of that candidate, in indexed mode (_calculate_recipe_score) and in scan
\* mode (_calculate_rule_scores after its normalization)
C8_MonotonicInRequiredIngredients ==
    prev.kind = "refine" =>
        \A i \in 1..Len(catalog) :
            LET text == IF use_database THEN db_rows(catalog)[i].search_text
                        ELSE recipe_to_text(memory_recipes(catalog)[i])
            IN  (scored[i].candidate /\ prev.scored[i].candidate /\ Mentions(text, prev.added))
                    => scored[i].num * prev.scored[i].den >= prev.scored[i].num * scored[i].den

\* C18: when the query has a dish name, every recipe search returns contains it in its
\* title or in its search_text, in indexed mode and in scan mode
C18_DishNameInEveryResult ==
    (request # NoRequest /\ request.parsed_query.dish_name # None) =>
        \A i \in 1..Len(results) :
            LET r == returned_recipe(results[i])
            IN  \/ Mentions(r.title, request.parsed_query.dish_name)
                \/ Mentions(r.search_text, request.parsed_query.dish_name)

\* every recipe of the catalog that passes the hard filters and has a positive score,
\* best first: the candidates of the query with no limit, the recipes the mask leaves
full_ranking(cat, db, req) ==
    IF db
    THEN LET rows == db_rows(cat)
             Passes(row) == db_filter(row, req.parsed_query)
             passing == SelectSeq(rows, Passes)
             with_score == [i \in 1..Len(passing) |->
                             [id |-> passing[i].id, title |-> passing[i].title,
                              score |-> calculate_recipe_score(passing[i], req.parsed_query),
                              den |-> 100]]
             Positive(r) == r.score > 0
         IN  SortDesc(SelectSeq(with_score, Positive))
    ELSE LET recipes == memory_recipes(cat)
             hybrid == hybrid_scores(recipes, req.parsed_query, req.use_tfidf, req.semantic)
             entries == [i \in 1..Len(recipes) |->
                           [id |-> i - 1, title |-> recipes[i].title,
                            score |-> hybrid.num[i], den |-> hybrid.den]]
             Positive(r) == r.score > 0
         IN  SelectSeq(argsort_reversed(entries), Positive)

\* C19: the slice is taken of the ranking of the full candidate set: for any offset a
\* recipe is returned exactly when its rank in that ranking lies in
\* offset .. offset + max_results - 1 (ranks counted from 0)
C19_SliceOfFullRanking ==
    request # NoRequest =>
        LET full == full_ranking(catalog, use_database, request)
        IN  \A k \in 1..Len(full) :
                (\E i \in 1..Len(results) : results[i].id = full[k].id)
                    <=> (request.offset <= k - 1 /\ k - 1 < request.offset + request.max_results)

\* C22: the results of a search are in descending order of score, and two results of
\* equal score are in the retrieval order of the Recipe Source (the order of the rows in
\* indexed mode, ascending index of the loaded list in scan mode)
C22_DescendingTiesInRetrievalOrder ==
    request # NoRequest =>
        \A i, j \in 1..Len(results) :
            i < j => /\ results[i].score >= results[j].score
                     /\ (results[i].score = results[j].score => results[i].id < results[j].id)

\* the same for the searches in indexed mode
indexed_ties_in_retrieval_order ==
    use_database => C22_DescendingTiesInRetrievalOrder

\* recipe number i of the catalog is among the results (ids are row ids in indexed
\* mode, list indices in scan mode)
returned(i) ==
    \E j \in 1..Len(results) : results[j].id = (IF use_database THEN i ELSE i - 1)

\* the value satisfies the bounds declared for the nutrient
within_bounds(value, constraints) ==
    /\ ("min" \in DOMAIN constraints => value >= constraints["min"])
    /\ ("max" \in DOMAIN constraints => value <= constraints["max"])

\* C17: for a query with a bound on a nutrient, a recipe with no value for it is never
\* returned in indexed mode and is not rejected for it in scan mode (it is returned when
\* its rule score is positive and the page has room for the whole catalog); in both
\* modes a returned recipe that has a value satisfies every min and max bound
C17_MissingValueRejectedIndexedKeptScan ==
    request # NoRequest =>
        \A n \in DOMAIN request.parsed_query.nutrition :
            \A i \in 1..Len(catalog) :
                LET value == Column(catalog[i], n)
                IN  /\ (use_database /\ value = NoValue) => ~returned(i)
                    /\ (/\ ~use_database
                        /\ value = NoValue
                        /\ scored[i].num > 0
                        /\ Len(catalog) <= request.max_results) => returned(i)
                    /\ (value # NoValue /\ returned(i))
                          => within_bounds(value, request.parsed_query.nutrition[n])

\* a scan-mode search for high protein: the recipe with no protein value is returned, a
\* recipe with 5 g of protein and a positive rule score is not
C17_Witness ==
    /\ request # NoRequest
    /\ ~use_database
    /\ request.parsed_query.nutrition = HighProtein
    /\ Len(catalog) = 2
    /\ \E i, j \in 1..2 :
         /\ catalog[i].protein = NoValue /\ returned(i)
         /\ catalog[j].protein = 5 /\ scored[j].num > 0 /\ ~returned(j)

\* the row the walkthrough evaluated for an entry of its report
case_row(entry) == db_rows(catalog)[entry.id]

\* C20: the combo bonus of _calculate_recipe_score is at most 30 points (20, and 10 once
\* for the proximity), and the total score_breakdown returns for a result equals the score
\* _calculate_recipe_score gave it
C20_ComboBonusAtMostThirtyBreakdownEqual ==
    report.ran =>
        \A k \in 1..Len(report.results) :
            LET entry == report.results[k]
                row == case_row(entry)
            IN  /\ combo_bonus(Lower(row.title), request.parsed_query.dish_name,
                               request.parsed_query.ingredients) <= 30
                /\ entry.rule_score_0_100 = scored[entry.id].num

\* the dish-name tier of a title and a search_text: the title itself, a word of the title
\* (by the place of its first occurrence), at word boundaries of the title, inside the
\* title, in the search_text only, nowhere
dish_tier(title_lower, search_text_lower, dish_lower) ==
    LET words == Split(title_lower)
        first == CHOOSE i \in 1..Len(words) :
                    words[i] = dish_lower /\ \A j \in 1..(i - 1) : words[j] # dish_lower
        bounded(text) == <<" ">> \o text \o <<" ">>
    IN  IF title_lower = dish_lower THEN 100
        ELSE IF \E i \in 1..Len(words) : words[i] = dish_lower
             THEN IF first = 1 THEN 60 ELSE IF first = Len(words) THEN 65 ELSE 55
        ELSE IF Contains(bounded(title_lower), bounded(dish_lower)) THEN 50
        ELSE IF Contains(title_lower, dish_lower) THEN 35
        ELSE IF Contains(search_text_lower, dish_lower) THEN 20
        ELSE 0

\* what a call adds for the required ingredients and the combo bonus
score_without_dish_points(made) ==
    LET no_dish == [made.parsed_query EXCEPT !.dish_name = None]
        title_lower == Lower(made.recipe.title)
    IN  calculate_recipe_score(made.recipe, no_dish)
        + (IF made.pc = "score_breakdown"
           THEN Min2(30, combo_bonus(title_lower, made.parsed_query.dish_name,
                                     made.parsed_query.ingredients))
           ELSE combo_bonus(title_lower, made.parsed_query.dish_name,
                            made.parsed_query.ingredients))

\* C21: for a query with a dish name, both scoring functions add exactly one dish-name
\* component, that of the first tier that holds: title equal to the dish 100; dish a
\* whole word of the title 60 (first word), 65 (last word), 55 (interior); dish at word
\* boundaries of the title without being one of its words 50; dish inside the title 35;
\* dish in the search_text only 20; otherwise 0
C21_OneDishNameTier ==
    (call.pc # "idle" /\ call.parsed_query.dish_name # None) =>
        LET tier == dish_tier(Lower(call.recipe.title),
                              Lower(call.recipe.search_text),
                              Lower(call.parsed_query.dish_name))
        IN  /\ call.score = tier + score_without_dish_points(call)
            /\ (call.pc = "score_breakdown" => call.dish_name_points = tier)

\* score_breakdown on 'Egg Beef Pie' for the dish 'beef pie' with a required ingredient:
\* the dish is in the title at word boundaries and is none of its words
C21_Witness ==
    /\ call.pc = "score_breakdown"
    /\ call.parsed_query.dish_name = t_beef_pie
    /\ call.parsed_query.ingredients = <<t_egg>>
    /\ Lower(call.recipe.title) = <<"e","g","g"," ","b","e","e","f"," ","p","i","e">>
    /\ call.dish_name_points = 50

(***************************************************************************)
(* Properties of the variety selection.                                    *)
(***************************************************************************)
\* C23: for variety_weight >= 0.1 and a list of candidates that is not empty, the recipe
\* _select_recipe_with_variety returns has the greatest total score of the candidates
\* (variety score times variety_weight plus its random draw times 1 - variety_weight),
\* whatever the ingredient counts are
C23_SelectedHasMaximumTotalScore ==
    (call.pc = "select_recipe_with_variety" /\ call.variety_weight >= 1) =>
        \A k \in 1..Len(call.candidates) :
            total_score100(call.candidates[call.selected], call.used_ingredients,
                           call.variety_weight, call.draws[call.selected])
            >= total_score100(call.candidates[k], call.used_ingredients,
                              call.variety_weight, call.draws[k])

(***************************************************************************)
(* Properties of the sessions.                                             *)
(***************************************************************************)
\* C9: with concurrent requests on the shared SimilarityEngine and MealPlanAssistant,
\* every request issues its queries on the session it acquired, none uses a session
\* another request closed, and every session is closed exactly once, by the request that
\* acquired it, so that none is open when the requests have ended
C9_EachRequestItsOwnSession ==
    /\ \A r \in Requests : ~reqs[r].used_foreign /\ ~reqs[r].used_closed
    /\ \A s \in 1..Len(sessions) :
          /\ sessions[s].closes <= 1
          /\ sessions[s].closes = 1 => sessions[s].closed_by_owner
    /\ (\A r \in Requests : ~in_flight(r)) =>
          \A s \in 1..Len(sessions) : ~sessions[s].open /\ sessions[s].closes = 1

\* C10: for one request at a time, the session _search_database, find_similar or
\* generate_meal_plan acquired is closed when the operation has ended, whether it
\* returned, returned early or raised; no session stays open between requests
C10_SessionClosedOnEveryExit ==
    /\ \A r \in Requests :
          reqs[r].pc = "done" =>
              /\ ~sessions[reqs[r].acquired].open
              /\ sessions[reqs[r].acquired].closes = 1
    /\ (\A r \in Requests : ~in_flight(r)) => \A s \in 1..Len(sessions) : ~sessions[s].open

\* find_similar has returned early for an unknown id and another operation has ended
\* with an exception
C10_Witness ==
    \E r1, r2 \in Requests :
        /\ reqs[r1].pc = "done" /\ reqs[r1].op = "similar" /\ reqs[r1].outcome = "early return"
        /\ reqs[r2].pc = "done" /\ reqs[r2].op # "similar" /\ reqs[r2].outcome = "exception"

(***************************************************************************)
(* Properties of the similarity engine.                                    *)
(***************************************************************************)
\* the rows of the table of the call
similar_rows == SimilarTables[catalog]

\* the combined score of the candidate a returned entry was made from
score_of(entry) ==
    LET k == CHOOSE k \in 1..Len(similar.candidates) : similar.candidates[k].id = entry.id
    IN  similar.combined_scores[k]

\* C13: find_similar returns at most `limit` recipes, never the seed recipe, only recipes
\* whose combined score is at least min_score, in descending order of combined score
C13_AtMostLimitRankedAboveMinScore ==
    similar.pc = "done" =>
        /\ Len(similar.results) <= similar.limit
        /\ \A i \in 1..Len(similar.results) :
             /\ similar.results[i].id # similar.recipe_id
             /\ \E k \in 1..Len(similar.candidates) :
                    similar.candidates[k].id = similar.results[i].id
             /\ score_of(similar.results[i]) >= similar.min_score
        /\ \A i, j \in 1..Len(similar.results) :
             i < j => score_of(similar.results[i]) >= score_of(similar.results[j])

\* a call with three candidates, one of them under min_score; of the two left the one
\* later in the table scores higher and is the only one returned (limit 1)
C13_Witness ==
    /\ similar.pc = "done"
    /\ similar.limit = 1
    /\ Len(similar.candidates) = 3
    /\ \E k \in 1..3 : similar.combined_scores[k] < similar.min_score
    /\ Len(similar.ranked) = 2
    /\ Len(similar.results) = 1
    /\ similar.results[1].id = similar.candidates[3].id
    /\ \E k \in 1..2 : /\ similar.combined_scores[k] >= similar.min_score
                        /\ similar.combined_scores[k] < similar.combined_scores[3]

\* C14: for a recipe id no row has, find_similar returns the empty list and sends no
\* query for candidates
C14_UnknownRecipeEmptyNoCandidateQuery ==
    (/\ similar.pc = "done"
     /\ \A k \in 1..Len(similar_rows) : similar_rows[k].id # similar.recipe_id)
        => /\ similar.results = <<>>
           /\ similar.queries = <<"target">>

\* a call for an id beyond the last row of a table of at least two rows
C14_Witness ==
    /\ similar.pc = "done"
    /\ Len(similar_rows) >= 2
    /\ similar.recipe_id = Len(similar_rows) + 1
    /\ similar.results = <<>>

\* C15: when the seed recipe has positive calories c, every candidate, and so every
\* returned recipe, has calories between 0.5 c and 1.5 c
C15_CandidatesWithinCalorieBand ==
    (similar.pc = "done" /\ similar.target # <<>>) =>
        LET c == similar.target[1].calories
            InBand(calories) == c <= 2 * calories /\ 2 * calories <= 3 * c
        IN  c > 0 =>
               /\ \A k \in 1..Len(similar.candidates) : InBand(similar.candidates[k].calories)
               /\ \A i \in 1..Len(similar.results) : InBand(similar.results[i].calories)

\* a seed of 600 calories: a recipe sharing an ingredient word with it and within the band
\* is returned, another sharing the word but with a third of the calories is no candidate
C15_Witness ==
    /\ similar.pc = "done"
    /\ similar.target # <<>>
    /\ similar.target[1].calories = 600
    /\ similar.results # <<>>
    /\ \E k \in 1..Len(similar_rows) :
         /\ similar_rows[k].id # similar.recipe_id
         /\ \E pattern \in ingredient_patterns(similar.target[1]) :
                Like(similar_rows[k].search_text, pattern)
         /\ similar_rows[k].calories = 200
         /\ \A j \in 1..Len(similar.candidates) : similar.candidates[j].id # similar_rows[k].id

\* C28: find_similar(recipe_id, limit, min_score) fetches, and scores, at most
\* limit * 10 candidate recipes.
C28_AtMostTenTimesLimitCandidates ==
    call.pc = "find_similar" => Len(call.candidates) <= call.limit * 10

\* what the two multiplications of the code give: at most limit * 30 candidates, none of
\* them the target
at_most_thirty_times_limit_candidates ==
    call.pc = "find_similar" =>
        /\ Len(call.candidates) <= call.limit * 30
        /\ \A i \in 1..Len(call.candidates) : call.candidates[i] # call.recipe_id

(***************************************************************************)
(* Properties of the meal plan.                                            *)
(***************************************************************************)
\* the meals of the plan so far, day by day, and those of the day in progress
plan_meals ==
    IF plan.pc = "idle" THEN <<>>
    ELSE all_meals(plan.meal_plan) \o plan.day_meals

\* C3: no recipe id occurs in more than one meal of a plan, over all its days and slots,
\* whether the meal came from the primary lookup or from the relaxed one
C3_NoRecipeTwiceInPlan ==
    \A i, j \in 1..Len(plan_meals) : i # j => plan_meals[i].id # plan_meals[j].id

\* a complete plan of two days or more with a meal from each lookup, after a slot for
\* which the relaxed lookup found only recipes not yet used
C3_Witness ==
    /\ plan.pc = "done"
    /\ Len(plan.meal_plan) >= 2
    /\ Len(plan_meals) >= 3
    /\ \E i, j \in 1..Len(plan_meals) :
          /\ i < j
          /\ plan_meals[i].meal_type = plan_meals[j].meal_type
          /\ plan_meals[i].lookup = "primary"
          /\ plan_meals[j].lookup = "relaxed"

\* max(lo, min(x, hi))
Clamp(x, lo, hi) == Max2(lo, Min2(x, hi))

\* the meal slots of a day with n meals
SlotList(n) ==
    IF n = 2 THEN <<t_breakfast, t_dinner>>
    ELSE IF n = 3 THEN <<t_breakfast, t_lunch, t_dinner>>
    ELSE <<t_breakfast, t_snack, t_lunch, t_dinner>>

\* C11: a returned plan has clamp(days, 1, 7) day entries, numbered 1, 2, ... in order;
\* the meals of each day follow the slot list of clamp(meals_per_day, 2, 4) in order, at
\* most one meal per slot, each with the meal type of its slot and the 1-based index of
\* the slot as its meal_number.
C11_DaysAndSlots ==
    plan.pc = "done" =>
        LET slots == SlotList(Clamp(plan.args.meals_per_day, 2, 4))
        IN  /\ Len(plan.meal_plan) = Clamp(plan.args.days, 1, 7)
            /\ \A d \in 1..Len(plan.meal_plan) :
                   LET meals == plan.meal_plan[d].meals
                   IN  /\ plan.meal_plan[d].day = d
                       /\ \A k \in 1..Len(meals) :
                              /\ meals[k].meal_number \in 1..Len(slots)
                              /\ meals[k].meal_type = slots[meals[k].meal_number]
                              /\ k > 1 => meals[k - 1].meal_number < meals[k].meal_number

\* a returned plan for arguments above both ranges, with a day whose first slots stayed
\* empty and a later slot has a meal
C11_Witness ==
    /\ plan.pc = "done"
    /\ plan.args.days > 7
    /\ plan.args.meals_per_day > 4
    /\ \E d \in 1..Len(plan.meal_plan) :
          /\ plan.meal_plan[d].meals # <<>>
          /\ plan.meal_plan[d].meals[1].meal_number > 2

\* the primary and the relaxed lookup of the slot at hand both find no recipe
no_candidates ==
    /\ plan.pc = "meal"
    /\ LET rows == PlanTables[catalog]
           meal_type == plan.meal_types[plan.meal_idx + 1]
       IN  /\ get_meal_candidates(rows,
                  build_meal_constraints(meal_type, plan.preferences, plan.nutrition_goals,
                                         plan.meals_per_day, plan.day_calories),
                  plan.used_recipe_ids) = {}
           /\ get_meal_candidates(rows, relaxed_constraints(meal_type),
                                  plan.used_recipe_ids) = {}

\* the step of a slot without candidates: no meal, the used recipes and ingredients as
\* before; then the next slot of the day with the running totals as before, or the day
\* entry with these totals and the next day, or the summary after the last day
skips_slot ==
    /\ all_meals(plan'.meal_plan) \o plan'.day_meals = plan_meals
    /\ plan'.used_recipe_ids = plan.used_recipe_ids
    /\ plan'.used_ingredients = plan.used_ingredients
    /\ IF plan.meal_idx + 1 < Len(plan.meal_types)
       THEN /\ plan'.pc = "meal"
            /\ plan'.day_num = plan.day_num
            /\ plan'.meal_idx = plan.meal_idx + 1
            /\ plan'.day_meals = plan.day_meals
            /\ plan'.day_calories = plan.day_calories
            /\ plan'.day_protein = plan.day_protein
            /\ plan'.meal_plan = plan.meal_plan
       ELSE /\ plan'.pc = IF plan.day_num < plan.days THEN "meal" ELSE "summary"
            /\ plan'.day_num = plan.day_num + 1
            /\ plan'.meal_idx = 0
            /\ Len(plan'.meal_plan) = Len(plan.meal_plan) + 1
            /\ plan'.meal_plan[Len(plan'.meal_plan)].day = plan.day_num
            /\ plan'.meal_plan[Len(plan'.meal_plan)].meals = plan.day_meals
            /\ plan'.meal_plan[Len(plan'.meal_plan)].daily_totals
                  = [calories |-> plan.day_calories, protein |-> plan.day_protein]

\* after the last day the plan has every day entry and the summary can be computed
reaches_summary ==
    plan.pc = "summary" =>
        /\ Len(plan.meal_plan) = plan.days
        /\ calculate_nutrition_summary(plan.meal_plan, plan.nutrition_goals) # {}

\* the plan returned has every day entry and a summary
returns_plan ==
    plan.pc = "done" =>
        /\ Len(plan.meal_plan) = plan.days
        /\ plan.summary # NoSummary
        /\ plan.summary.total_recipes = Len(plan_meals)

\* C12: when the primary and the relaxed lookup both find no candidate for a slot, no
\* meal is placed in it, the used recipes, the ingredient counts and the running totals
\* of the day stay as they are, the call goes on with the remaining slots and days, and
\* it returns a plan with every day entry and a summary, also when no meal was placed.
C12_EmptySlotIsSkipped ==
    [][ /\ no_candidates => skips_slot
        /\ reaches_summary'
        /\ returns_plan' ]_vars

\* a returned plan of two days or more without any meal, with its summary
C12_Witness ==
    /\ plan.pc = "done"
    /\ Len(plan.meal_plan) >= 2
    /\ plan_meals = <<>>
    /\ plan.summary # NoSummary
    /\ plan.summary.total_recipes = 0
    /\ \A d \in 1..Len(plan.meal_plan) : plan.meal_plan[d].meals = <<>>

\* the meal type of the slot at hand
slot_meal_type == plan.meal_types[plan.meal_idx + 1]

\* the constraints _build_meal_constraints gives the slot at hand
slot_constraints ==
    build_meal_constraints(slot_meal_type, plan.preferences, plan.nutrition_goals,
                           plan.meals_per_day, plan.day_calories)

\* the primary lookup of the slot at hand finds no recipe
primary_lookup_empty ==
    /\ plan.pc = "meal"
    /\ get_meal_candidates(PlanTables[catalog], slot_constraints, plan.used_recipe_ids) = {}

\* the recipes not used so far whose search_text contains the meal type of the slot
unused_of_meal_type ==
    LET rows == PlanTables[catalog]
    IN  { rows[i].id : i \in { k \in 1..Len(rows) :
                                  /\ rows[k].id \notin plan.used_recipe_ids
                                  /\ Contains(Lower(rows[k].search_text), slot_meal_type) } }

\* those of them that have calorie data: a value above zero
unused_of_meal_type_with_calories ==
    { id \in unused_of_meal_type : PlanTables[catalog][id].calories > 0 }

\* the step of a slot filled from the relaxed lookup with one of the recipes given
places_relaxed(ids) ==
    LET meals == all_meals(plan'.meal_plan) \o plan'.day_meals
    IN  /\ Len(meals) = Len(plan_meals) + 1
        /\ SubSeq(meals, 1, Len(plan_meals)) = plan_meals
        /\ meals[Len(meals)].id \in ids
        /\ meals[Len(meals)].meal_type = slot_meal_type
        /\ meals[Len(meals)].lookup = "relaxed"

\* C24, as claimed: when the primary lookup of a slot finds nothing, the slot gets one
\* of the recipes not used so far whose search_text contains its meal type, and it is
\* left empty only if there is no such recipe
C24_RelaxedLookupByMealTypeOnly ==
    [][ primary_lookup_empty =>
            IF unused_of_meal_type = {} THEN skips_slot
            ELSE places_relaxed(unused_of_meal_type) ]_vars

\* C24, amended: when the primary lookup of a slot finds nothing, the slot gets one of
\* the recipes not used so far that have calories above zero and whose search_text
\* contains its meal type, and it is left empty only if there is no such recipe
C24_RelaxedLookupByMealTypeWithCalories ==
    [][ primary_lookup_empty =>
            IF unused_of_meal_type_with_calories = {} THEN skips_slot
            ELSE places_relaxed(unused_of_meal_type_with_calories) ]_vars

\* a returned vegetarian plan with a meal from the relaxed lookup that is not vegetarian,
\* and a slot left empty
C24_Witness ==
    /\ plan.pc = "done"
    /\ "vegetarian" \in plan.preferences
    /\ \E i \in 1..Len(plan_meals) :
          /\ plan_meals[i].lookup = "relaxed"
          /\ ~Contains(Lower(PlanTables[catalog][plan_meals[i].id].search_text), t_vegetarian)
    /\ \E d \in 1..Len(plan.meal_plan) : Len(plan.meal_plan[d].meals) < Len(plan.meal_types)

\* C25: the primary lookup of a slot admits only recipes whose calories are in the band
\* from max(50, 0.7 * target) to min(remaining, 1.3 * target), with target = daily
\* calories / meals per day and remaining = daily calories - calories placed that day,
\* for every value of remaining, also when the budget of the day is used up
C25_PrimaryLookupWithinCalorieBand ==
    call.pc = "primary_lookup" =>
        LET daily == Get(call.nutrition_goals, "calories", 2000)
            remaining == daily - call.day_calories
            n == call.meals_per_day
        IN  \A i \in call.candidates :
                /\ 10 * n * LookupTable[i].calories >= Max2(500 * n, 7 * daily)
                /\ 10 * n * LookupTable[i].calories <= Min2(10 * n * remaining, 13 * daily)

\* the same for the slots of a day that has budget left
primary_lookup_within_band_while_budget_left ==
    (call.pc = "primary_lookup"
        /\ Get(call.nutrition_goals, "calories", 2000) - call.day_calories > 0)
    => C25_PrimaryLookupWithinCalorieBand

\* the keywords of the exclusion lists of the flags set in the preferences
flag_keywords(preferences) ==
    (IF "no_dairy" \in preferences THEN no_dairy_words ELSE <<>>)
    \o (IF "no_gluten" \in preferences THEN no_gluten_words ELSE <<>>)
    \o (IF "no_nuts" \in preferences THEN no_nuts_words ELSE <<>>)

no_flagged_keyword_from_primary_lookup ==
    plan.pc = "done" =>
        \A i \in 1..Len(plan_meals) :
            plan_meals[i].lookup = "primary" =>
                \A k \in 1..Len(flag_keywords(plan.preferences)) :
                    ~Contains(Lower(PlanTables[catalog][plan_meals[i].id].search_text),
                              flag_keywords(plan.preferences)[k])

\* the achievement entry (in tenths of a percent) is total / days / target * 100, up to
\* the two roundings to one decimal: that of the average and that of the percentage
achievement_of(entry, total, days) ==
    LET off == 2 * entry.achievement * days * entry.target - 2000 * total
    IN  Abs(off) <= days * entry.target + 100 * days

\* C16: goal_achievement of the summary has an entry for every nutrient of the
\* nutrition goals supplied (with a target above zero, for which the percentage is
\* defined), with the goal value as its target and, as its achievement, the per-day
\* average of the nutrient over the meals placed, divided by the target, times 100.
C16_GoalAchievementPerNutrient ==
    plan.pc = "done" =>
        \A nutrient \in DOMAIN plan.nutrition_goals :
            plan.nutrition_goals[nutrient] > 0 =>
                /\ nutrient \in DOMAIN plan.summary.goal_achievement
                /\ plan.summary.goal_achievement[nutrient].target
                      = plan.nutrition_goals[nutrient]
                /\ achievement_of(plan.summary.goal_achievement[nutrient],
                                  SumNutrient(plan_meals, nutrient), Len(plan.meal_plan))

(***************************************************************************)
(* Properties of the query parser.                                         *)
(***************************************************************************)
\* the excluded list before it is cut to ten: what the negation patterns resolved
negated_ingredients(query) == find_excluded(<<>>, query, 1)

\* the positive substring scan takes up the ingredient
scan_matches(query, ingredient) ==
    Contains(query, ingredient) /\ ~InList(ingredient, DISH_NAMES)

\* C4: the required and the excluded ingredients of a parsed query are disjoint, and
\* an ingredient that both a negation pattern and the positive substring scan match is
\* not a required ingredient and is an excluded one (when it is among the ten
\* ingredients the excluded list holds at most).
C4_ExclusionWins ==
    parsed # NoParse =>
        LET query == Lower(parsed.original_query)
            negated == negated_ingredients(query)
        IN  /\ \A i \in 1..Len(parsed.ingredients) :
                   ~InList(parsed.ingredients[i], parsed.excluded_ingredients)
            /\ \A k \in 1..Len(COMMON_INGREDIENTS) :
                   LET ing == COMMON_INGREDIENTS[k]
                   IN  InList(ing, negated) /\ scan_matches(query, ing) =>
                           /\ ~InList(ing, parsed.ingredients)
                           /\ \/ InList(ing, parsed.excluded_ingredients)
                              \/ IndexOf(negated, ing) >= 10

\* a query where only the excluded list keeps an ingredient out of the required ones:
\* the ingredient is in the text with no negation word in the 30 characters before it,
\* and a negation pattern matches it
C4_Witness ==
    /\ parsed # NoParse
    /\ \E k \in 1..Len(COMMON_INGREDIENTS) :
           LET query == Lower(parsed.original_query)
               ing == COMMON_INGREDIENTS[k]
           IN  /\ scan_matches(query, ing)
               /\ ~is_negated_by_context(query, ing, <<>>)
               /\ InList(ing, negated_ingredients(query))
               /\ InList(ing, parsed.excluded_ingredients)
               /\ ~InList(ing, parsed.ingredients)

\* C5: a bound (min or max) of a nutrient that a numeric pattern has set keeps its value
\* when a modifier phrase for the same nutrient and bound is in the query too; the
\* modifier's value is used only where the bound is absent.
C5_ModifierKeepsNumericBound ==
    parsed # NoParse =>
        LET numeric == numeric_constraints(NoNutrition, Lower(parsed.original_query), 1)
        IN  \A n \in DOMAIN numeric : \A b \in DOMAIN numeric[n] :
                /\ n \in DOMAIN parsed.nutrition
                /\ b \in DOMAIN parsed.nutrition[n]
                /\ parsed.nutrition[n][b] = numeric[n][b]

\* the phrases the negation patterns capture in the query
captured_phrases(query) ==
    { Lower(Strip(Group(query, FindIter(negation_patterns[p], query)[m], 1))) :
        <<p, m>> \in { pm \in (1..Len(negation_patterns)) \X (1..Len(query)) :
                         pm[2] <= Len(FindIter(negation_patterns[pm[1]], query)) } }

\* the captured phrase resolves to the ingredient
resolves_to(excluded_item, ing) ==
    Contains(ing, excluded_item) \/ Contains(excluded_item, ing)

\* C26: a negation match whose captured phrase is itself a stop word adds no ingredient
\* to the excluded list: every excluded ingredient of a parsed query is resolved from
\* a captured phrase that is not a stop word.
C26_StopWordPhraseExcludesNothing ==
    parsed # NoParse =>
        LET phrases == captured_phrases(Lower(parsed.original_query))
        IN  \A i \in 1..Len(parsed.excluded_ingredients) :
                \E excluded_item \in phrases \ skip_words :
                    resolves_to(excluded_item, parsed.excluded_ingredients[i])

\* what the exclusion step keeps out: no excluded ingredient is itself a stop word
excluded_ingredient_is_no_stop_word ==
    parsed # NoParse =>
        \A i \in 1..Len(parsed.excluded_ingredients) :
            parsed.excluded_ingredients[i] \notin skip_words

\* the word occurs in the text at the 0-based position
occurs_at(text, word, pos) ==
    /\ pos >= 0
    /\ pos + Len(word) <= Len(text)
    /\ \A c \in 1..Len(word) : text[pos + c] = word[c]

\* where the ingredient first occurs in the text (0-based)
first_occurrence(text, word) ==
    CHOOSE pos \in 0..Len(text) :
        /\ occurs_at(text, word, pos)
        /\ \A before \in 0..(pos - 1) : ~occurs_at(text, word, before)

\* a negation marker lies within the 30 characters immediately before the position
marker_within_30_before(text, pos) ==
    \E neg \in NEGATION_WORDS : \E at \in 0..Len(text) :
        /\ occurs_at(text, neg, at)
        /\ at >= pos - 30
        /\ at + Len(neg) <= pos

\* the ingredients of the curated list the rule of the inclusion step lets through, in
\* the order of the list
required_by_rule(query) ==
    LET Required(ing) ==
            /\ scan_matches(query, ing)
            /\ ~InList(ing, negated_ingredients(query))
            /\ ~marker_within_30_before(query, first_occurrence(query, ing))
    IN  SelectSeq(COMMON_INGREDIENTS, Required)

\* C27: a curated ingredient that occurs in the text and is not a dish name is a
\* required ingredient exactly when it is not an excluded one and no negation marker
\* lies in the 30 characters before its first occurrence; the required list has no
\* entry twice and at most 10 entries (the first ten the rule lets through).
C27_RequiredIngredientsRule ==
    parsed # NoParse =>
        LET query == Lower(parsed.original_query)
            required == required_by_rule(query)
        IN  /\ Len(parsed.ingredients) <= 10
            /\ \A i, j \in 1..Len(parsed.ingredients) :
                   parsed.ingredients[i] = parsed.ingredients[j] => i = j
            /\ \A i \in 1..Len(parsed.ingredients) :
                   InList(parsed.ingredients[i], required)
            /\ \A k \in 1..Len(required) :
                   k <= 10 => InList(required[k], parsed.ingredients)

\* a query where the window decides: a negation marker stands before the first
\* occurrence of an ingredient, but not within the 30 characters before it, and the
\* ingredient is a required one
C27_Witness ==
    /\ parsed # NoParse
    /\ LET query == Lower(parsed.original_query)
       IN  \E i \in 1..Len(parsed.ingredients) :
               LET pos == first_occurrence(query, parsed.ingredients[i])
               IN  /\ \E neg \in NEGATION_WORDS : \E at \in 0..Len(query) :
                          occurs_at(query, neg, at) /\ at + Len(neg) <= pos
                   /\ ~marker_within_30_before(query, pos)

(***************************************************************************)
(* Properties of the cached search route.                                  *)
(***************************************************************************)
\* the (q, limit, page) a request stands for: the limit capped at 100, the page at
\* least 1
memo_key(asked) == <<asked.q, Min2(asked.limit, 100), Max2(asked.page, 1)>>

\* the (q, limit, page) a response was computed for
response_key(response) == <<response.query, response.per_page, response.page>>

\* the cache keys under which the response of this (q, limit, page) is held and has not
\* expired
live_entries(memory_cache, key3, now) ==
    { k \in DOMAIN memory_cache :
        /\ response_key(memory_cache[k].value) = key3
        /\ memory_cache[k].expires_at > now }

\* a step in which the route answers a request with a response
answers(before, after) ==
    /\ after.now = before.now
    /\ after # before
    /\ after.served # <<>>
    /\ after.served.status = 200

\* C29: GET /search/simple is memoization keyed on (q, limit, page): while a response
\* stored for the same (q, limit, page) is younger than 300 seconds the request gets
\* that response's results, flagged cached, and neither parser nor matcher runs;
\* otherwise the response is computed for this (q, limit, page), never taken from
\* another key, and stored for 300 seconds.
C29_MemoizedPerQueryLimitPage ==
    [][answers(simple, simple') =>
          LET served == simple'.served
              key3 == memo_key(served.request)
              live == live_entries(simple.memory_cache, key3, simple.now)
          IN  IF live # {}
              THEN /\ ~served.computed
                   /\ served.response.cached
                   /\ \E k \in live :
                          served.response.results = simple.memory_cache[k].value.results
              ELSE /\ served.computed
                   /\ response_key(served.response) = key3
                   /\ \E k \in DOMAIN simple'.memory_cache :
                          /\ simple'.memory_cache[k].value = served.response
                          /\ simple'.memory_cache[k].expires_at = simple.now + SimpleTtl
    ]_vars

\* what the route does: the same, per cache key (the 12 hex digits generate_key makes
\* of q, limit and page) instead of per (q, limit, page)
memoized_per_cache_key ==
    [][answers(simple, simple') =>
          LET served == simple'.served
              key3 == memo_key(served.request)
              cache_key == generate_key(<<"s","e","a","r","c","h">>, key3[1], key3[2], key3[3])
          IN  IF /\ cache_key \in DOMAIN simple.memory_cache
                 /\ simple.memory_cache[cache_key].expires_at > simple.now
              THEN /\ ~served.computed
                   /\ served.response.cached
                   /\ served.response.results
                          = simple.memory_cache[cache_key].value.results
              ELSE /\ served.computed
                   /\ response_key(served.response) = key3
                   /\ simple'.memory_cache[cache_key].value = served.response
                   /\ simple'.memory_cache[cache_key].expires_at = simple.now + SimpleTtl
    ]_vars

\* a request is answered with the response of another (q, limit, page)
answered_with_another_keys_response ==
    /\ simple.served # <<>>
    /\ simple.served.status = 200
    /\ response_key(simple.served.response) # memo_key(simple.served.request)

====
